---------------------------- MODULE Spec2Model ----------------------------
(***************************************************************************)
(* Simulation core of card_combinator: the card-stack forest (collide_cards,*)
(* select_card, move_cards, evaluate_stacks), tile slotting and production *)
(* (try_slotting_card, hover_tile, evaluate_tiles) and combat              *)
(* (handle_enemies, combat).  One action per system; a tick runs the       *)
(* systems in the order the plugins declare (card.rs 21-33, tile.rs 18-21).*)
(* Times are in tenths of a second.  Entity ids are never reused while any *)
(* reference to them survives, as with the engine's generational ids.      *)
(***************************************************************************)
EXTENDS Integers, Sequences, FiniteSets, TLC

\* ------------------------------------------------------------------ bounds
MaxCards == 4
MaxBars == 4
NumWoods == 1
MaxTicks == 3
\* ticks followed in the runs with the shortest frame time
MaxSlowTicks == 4
\* collision events delivered in one frame
MaxEvents == 1

\* the frame time of a run (tenths of a second)
Deltas == {60, 360}

\* the distances between a hostile card and a card it may choose (tenths of
\* a unit): within the strike range, at it, beyond it
Distances == {5, 10, 15}

\* -------------------------------------------------------- program constants
None == 0
\* card.rs 873: 1.0
StrikeRange == 10
BreedTotal == 50
WoodsTotal == 150
EnemiesTotal == 200
AttackCooldown == 10
RetaliateCooldown == 9
VillagerHealth == 3
GoblinHealth == 1
LogHealth == 0
VillagerDamage == 1
GoblinDamage == 1
LogDamage == 0

CardIds == 1..MaxCards
BarIds == 1..MaxBars
WoodsTiles == 1..NumWoods
EnemiesTile == NumWoods + 1
TileIds == 1..(NumWoods + 1)
\* what a walk along links yields when it never returns
Hang == MaxCards + 1

VARIABLES
    cards,          \* live card entity -> Card
    roots,          \* StackRoots.roots: entity -> StackType
    queued,         \* StackRoots.queued_stack_recomputations
    selected,       \* SelectedCard (None or an entity)
    hovered_tile,   \* HoveredTile
    tiles,          \* tile entity -> Tile
    bars,           \* live progress bar entity -> ProgressBar and its parent
    deferred,       \* cards spawned by evaluate_tiles, not yet applied
    delta,          \* Time::delta, the same in every tick of a run
    tick,           \* ticks completed (bounds the run)
    pc,             \* the next card system of the tick
    tiles_done,     \* evaluate_tiles has run in this tick
    ev,             \* what the last system did (for stating properties)
    merged,         \* the registry entries of the cards collide_cards moved onto
                    \* another stack in this tick (for stating properties)
    placed          \* the pairs <<a, b>> of cards of which move_cards last put
                    \* b in front of a (a greater translation.z)

vars == <<cards, roots, queued, selected, hovered_tile, tiles,
          bars, deferred, delta, tick, pc, tiles_done, ev, merged, placed>>

\* ------------------------------------------------------------------ cards
NoCombat == [target |-> None, elapsed |-> 0, duration |-> 0]

class(card_type) ==
    CASE card_type = "Villager" -> "Villager"
      [] card_type = "Log" -> "Resource"
      [] card_type = "Goblin" -> "Enemy"

get_initial_stats(card_type) ==
    CASE card_type = "Villager" -> [health |-> VillagerHealth, damage |-> VillagerDamage]
      [] card_type = "Goblin" -> [health |-> GoblinHealth, damage |-> GoblinDamage]
      [] OTHER -> [health |-> LogHealth, damage |-> LogDamage]

NewCard(card_type) ==
    [card_type |-> card_type,
     health |-> get_initial_stats(card_type).health,
     combat_state |-> NoCombat,
     stack_parent |-> None,
     stack_child |-> None,
     slotted_in_tile |-> None]

\* card.rs 78 without the test of slotted_in_tile
is_stackable_in_slot(card) == ~(class(card.card_type) = "Enemy")

\* card.rs 77-79
is_stackable(card) ==
    card.slotted_in_tile = None /\ ~(class(card.card_type) = "Enemy")

is_player_controlled(card) ==
    class(card.card_type) \in {"Villager", "Resource"}

in_stack(card) ==
    card.stack_parent # None \/ card.stack_child # None

Pending == [kind |-> "Pending", progress_bar |-> None]
Nothing == [kind |-> "Nothing", progress_bar |-> None]
Breed(b) == [kind |-> "Breed", progress_bar |-> b]

\* ------------------------------------------------------------ small helpers
Min(S) == CHOOSE x \in S : \A y \in S : x <= y

Remove(f, k) == [x \in (DOMAIN f) \ {k} |-> f[x]]

Put(f, k, v) == (k :> v) @@ f

\* every ordering of a finite set, as sequences
Orders(S) ==
    {s \in [1..Cardinality(S) -> S] : \A i, j \in 1..Cardinality(S) : s[i] = s[j] => i = j}

\* card ids some component still refers to
ReferencedCards(cs, rts, q, sel, tls, dfr) ==
    UNION {{cs[c].stack_parent, cs[c].stack_child, cs[c].combat_state.target} : c \in DOMAIN cs}
    \cup DOMAIN rts \cup q \cup {sel}
    \cup {tls[t].slotted_villager : t \in DOMAIN tls}
    \cup {dfr[i].id : i \in DOMAIN dfr}

FreeCards(cs, rts, q, sel, tls, dfr) ==
    CardIds \ (DOMAIN cs \cup ReferencedCards(cs, rts, q, sel, tls, dfr))

ReferencedBars(rts, tls) ==
    {rts[r].progress_bar : r \in DOMAIN rts} \cup {tls[t].progress_bar : t \in DOMAIN tls}

\* the number of ticks a run with frame time d is followed for
Horizon(d) == IF d = Min(Deltas) THEN MaxSlowTicks ELSE MaxTicks

\* ------------------------------------------------------------ stack walks
RECURSIVE walk_top(_, _, _)
walk_top(cs, current_entity, fuel) ==
    IF fuel = 0 THEN Hang
    ELSE IF current_entity \in DOMAIN cs /\ cs[current_entity].stack_child # None
         THEN walk_top(cs, cs[current_entity].stack_child, fuel - 1)
         ELSE current_entity

find_stack_top(cs, entity) == walk_top(cs, entity, MaxCards)

RECURSIVE walk_root(_, _, _)
walk_root(cs, current_entity, fuel) ==
    IF fuel = 0 THEN Hang
    ELSE IF current_entity \in DOMAIN cs /\ cs[current_entity].stack_parent # None
         THEN walk_root(cs, cs[current_entity].stack_parent, fuel - 1)
         ELSE current_entity

find_stack_root(cs, entity) == walk_root(cs, entity, MaxCards)

\* the live cards visited from `current` along stack_child links
RECURSIVE walk_chain(_, _, _)
walk_chain(cs, current, fuel) ==
    IF current \notin DOMAIN cs THEN <<>>
    ELSE IF fuel = 0 THEN <<Hang>>
    ELSE IF cs[current].stack_child # None
         THEN <<current>> \o walk_chain(cs, cs[current].stack_child, fuel - 1)
         ELSE <<current>>

\* the cards met when following stack_child links from `current`
walk_set(cs, current) ==
    LET ch == walk_chain(cs, current, MaxCards) IN {ch[i] : i \in DOMAIN ch}

chain_hangs(cs, root) ==
    LET ch == walk_chain(cs, root, MaxCards) IN
    \E i \in DOMAIN ch : ch[i] = Hang

\* get_cards_types: card type -> number of cards of that type in the chain
get_cards_types(root, cs) ==
    LET ch == walk_chain(cs, root, MaxCards)
        types == {cs[ch[i]].card_type : i \in DOMAIN ch}
    IN [t \in types |-> Cardinality({i \in DOMAIN ch : cs[ch[i]].card_type = t})]

\* ---------------------------------------------------------------- initial
Init ==
    /\ cards = [c \in {1, 2} |-> NewCard("Villager")]
    /\ roots = <<>>
    /\ queued = {}
    /\ selected = None
    /\ hovered_tile = None
    /\ tiles = [t \in TileIds |->
                  IF t = EnemiesTile
                  THEN [variant |-> "Enemies", slotted_villager |-> None, progress_bar |-> 1]
                  ELSE [variant |-> "Woods", slotted_villager |-> None, progress_bar |-> None]]
    /\ bars = (1 :> [current |-> 0, total |-> EnemiesTotal, owner |-> None])
    /\ deferred = <<>>
    /\ delta \in Deltas
    /\ tick = 0
    /\ pc = "collide_cards"
    /\ tiles_done = FALSE
    /\ ev = [op |-> "init"]
    /\ merged = <<>>
    /\ placed = {}

\* ------------------------------------------------------------ collide_cards
\* CollisionEvent::Started(e1, e2) with the outcome of t1.z > t2.z.  The event
\* (e2, e1) with the opposite outcome yields the same pair, so e1 < e2 here.
Events(cs) ==
    {[e1 |-> a, e2 |-> b, e1_in_front |-> f] :
        a \in DOMAIN cs, b \in DOMAIN cs, f \in BOOLEAN}

\* card.rs 480-488: the card of the event that counts as being in front
front(e) == IF e.e1_in_front THEN e.e1 ELSE e.e2

back(e) == IF e.e1_in_front THEN e.e2 ELSE e.e1

\* the cards whose z is at least that of a card of S, by the given pairs
RECURSIVE at_least(_, _, _)
at_least(pairs, S, fuel) ==
    IF fuel = 0 THEN S
    ELSE at_least(pairs, S \cup {pr[2] : pr \in {q \in pairs : q[1] \in S}}, fuel - 1)

\* Cards are fixed bodies: their translations are those move_cards gave them.
\* The outcomes of one frame's events agree with some such translations: no
\* card is at least as far in front as one that move_cards put in front of it.
z_consistent(batch, plc) ==
    LET pairs == plc \cup {<<back(batch[i]), front(batch[i])>> : i \in DOMAIN batch}
    IN \A pr \in plc : pr[1] \notin at_least(pairs, {pr[2]}, MaxCards)

\* the events of one frame: a contact starts once
Batches(cs, plc) ==
    {batch \in UNION {[1..n -> {e \in Events(cs) : e.e1 < e.e2}] : n \in 0..MaxEvents} :
        /\ \A i, j \in DOMAIN batch :
             (batch[i].e1 = batch[j].e1 /\ batch[i].e2 = batch[j].e2) => i = j
        /\ z_consistent(batch, plc)}

\* the test at card.rs 473 left out
is_selected_never(sel, entity) == FALSE

\* card.rs 172-177: SelectedCard::is_selected
is_selected(sel, entity) == sel # None /\ sel = entity

\* card.rs 472-489: the pair (mover, back card) an event contributes, if any
front_pair(cs, sel, e) ==
    IF is_selected(sel, e.e1) \/ is_selected(sel, e.e2) THEN <<>>
    ELSE IF e.e1 \in DOMAIN cs /\ e.e2 \in DOMAIN cs /\ e.e1 # e.e2
         THEN IF e.e1_in_front
              THEN (IF cs[e.e1].stack_parent = None THEN <<<<e.e1, e.e2>>>> ELSE <<>>)
              ELSE (IF cs[e.e2].stack_parent = None THEN <<<<e.e2, e.e1>>>> ELSE <<>>)
         ELSE <<>>

RECURSIVE stack_x_on_y(_, _, _)
stack_x_on_y(cs, sel, batch) ==
    IF batch = <<>> THEN <<>>
    ELSE front_pair(cs, sel, Head(batch)) \o stack_x_on_y(cs, sel, Tail(batch))

\* the test of `top` at card.rs 499 left out
attach_guard_any_top(cx, ctop) ==
    /\ cx.stack_parent = None
    /\ ctop.stack_child = None
    /\ is_stackable(cx)

\* the test of the mover at card.rs 500 left out
attach_guard_any_mover(cx, ctop) ==
    /\ cx.stack_parent = None
    /\ ctop.stack_child = None
    /\ is_stackable(ctop)

\* card.rs 497-500
attach_guard(cx, ctop) ==
    /\ cx.stack_parent = None
    /\ ctop.stack_child = None
    /\ is_stackable(ctop)
    /\ is_stackable(cx)

\* card.rs 514 left out: the new Pending entry of top is not queued
register_attach_unqueued(st, ex, top) ==
    [st EXCEPT
        !.roots = IF top \in DOMAIN st.roots THEN st.roots ELSE Put(st.roots, top, Pending),
        !.queued = st.queued \cup (IF top \in DOMAIN st.roots THEN {top} ELSE {})
                             \cup (IF ex \in DOMAIN st.roots THEN {ex} ELSE {})]

\* card.rs 506-525: registry and queue after attaching ex onto top
register_attach(st, ex, top) ==
    [st EXCEPT
        !.roots = IF top \in DOMAIN st.roots THEN st.roots ELSE Put(st.roots, top, Pending),
        !.queued = st.queued \cup {top} \cup (IF ex \in DOMAIN st.roots THEN {ex} ELSE {})]

\* card.rs 495-527: one iteration of the attach loop
attach(st, ex, ey) ==
    LET top == find_stack_top(st.cards, ey) IN
    IF st.hang \/ top = Hang THEN [st EXCEPT !.hang = TRUE]
    ELSE IF /\ ex \in DOMAIN st.cards
            /\ top \in DOMAIN st.cards
            /\ ex # top
            /\ attach_guard(st.cards[ex], st.cards[top])
         THEN register_attach(
                [st EXCEPT !.cards = [st.cards EXCEPT ![top].stack_child = ex,
                                                      ![ex].stack_parent = top],
                           !.attached = Append(st.attached, <<ex, top, ey>>)],
                ex, top)
         ELSE st

RECURSIVE attach_all(_, _)
attach_all(st, pairs) ==
    IF pairs = <<>> THEN st
    ELSE attach_all(attach(st, Head(pairs)[1], Head(pairs)[2]), Tail(pairs))

\* batches: the sets of contacts that the frame may see start
Collide(batches) ==
    /\ pc = "collide_cards"
    /\ tick < Horizon(delta)
    /\ \E batch \in batches :
        LET st0 == [cards |-> cards, roots |-> roots, queued |-> queued,
                    hang |-> FALSE, attached |-> <<>>]
            st == attach_all(st0, stack_x_on_y(cards, selected, batch))
        IN IF st.hang
           THEN /\ pc' = "hang"
                /\ ev' = [op |-> "hang"]
                /\ UNCHANGED <<cards, roots, queued, merged>>
           ELSE /\ pc' = "select_card"
                /\ cards' = st.cards
                /\ roots' = st.roots
                /\ queued' = st.queued
                /\ ev' = [op |-> "collide_cards", batch |-> batch,
                          attached |-> st.attached]
                /\ merged' = [x \in {st.attached[i][1] : i \in
                                      {j \in DOMAIN st.attached :
                                         /\ st.attached[j][1] \in DOMAIN roots
                                         /\ st.attached[j][2] \notin
                                              walk_set(cards, st.attached[j][1])}}
                               |-> roots[x]]
    /\ UNCHANGED <<selected, hovered_tile, tiles, bars, deferred, delta, tick,
                   tiles_done, placed>>

CollideCards == Collide(Batches(cards, placed))

\* collide_cards in a frame in which no contact starts
CollideCardsApart == Collide({<<>>})

\* -------------------------------------------------------------- select_card
FreeBars(bs, rts, tls, reserved) ==
    BarIds \ (DOMAIN bs \cup ReferencedBars(rts, tls) \cup reserved)

\* the test of slotted_villager at tile.rs 109 left out
slot_guard_occupied_too(tile, card) ==
    /\ tile.variant = "Woods"
    /\ class(card.card_type) = "Villager"

\* tile.rs 109
slot_guard(tile, card) ==
    /\ tile.variant = "Woods"
    /\ tile.slotted_villager = None
    /\ class(card.card_type) = "Villager"

\* tile.rs 110 moved before the test at 109: a failed call still writes the slot
try_slotting_card_marking(tile, card_entity, card, new_bar) ==
    IF slot_guard(tile, card)
    THEN [result |-> TRUE,
          tile |-> [tile EXCEPT !.slotted_villager = card_entity,
                                !.progress_bar = new_bar]]
    ELSE [result |-> FALSE,
          tile |-> [tile EXCEPT !.slotted_villager = card_entity]]

\* tile.rs 97-137; new_bar is the entity of the progress bar it spawns
try_slotting_card(tile, card_entity, card, new_bar) ==
    IF slot_guard(tile, card)
    THEN [result |-> TRUE,
          tile |-> [tile EXCEPT !.slotted_villager = card_entity,
                                !.progress_bar = new_bar]]
    ELSE [result |-> FALSE, tile |-> tile]

\* card.rs 626 left out: the slot keeps naming the card
unslot_slot_kept(tile) == tile

\* card.rs 616-631: the tile after its slotted card is picked up
unslot(tile) ==
    IF tile.variant = "Woods" THEN [tile EXCEPT !.slotted_villager = None] ELSE tile

\* the insert at card.rs 643 left out
register_detach_parent_unqueued(st, entity, parent, child) ==
    [st EXCEPT
        !.roots = IF child # None THEN Put(st.roots, entity, Pending) ELSE st.roots,
        !.queued = st.queued \cup (IF child # None THEN {entity} ELSE {})]

\* card.rs 639-650: registry and queue after `entity` left `parent`
register_detach(st, entity, parent, child) ==
    [st EXCEPT
        !.roots = IF child # None THEN Put(st.roots, entity, Pending) ELSE st.roots,
        !.queued = st.queued \cup {parent} \cup (IF child # None THEN {entity} ELSE {})]

\* card.rs 608-653: mouse.just_pressed, the ray hit `hit` (None: nothing hit)
press(st, hit, bs) ==
    IF hit = None \/ hit \notin DOMAIN st.cards THEN st
    ELSE IF ~is_player_controlled(st.cards[hit]) THEN st
    ELSE
      LET card == st.cards[hit]
          t == card.slotted_in_tile
          bar == IF t # None /\ st.tiles[t].variant = "Woods"
                 THEN st.tiles[t].progress_bar ELSE None
          parent == card.stack_parent
          child == card.stack_child
          cards1 == [st.cards EXCEPT ![hit].slotted_in_tile = None,
                                     ![hit].stack_parent = None]
          st1 == [st EXCEPT
                    !.tiles = IF t # None THEN [st.tiles EXCEPT ![t] = unslot(st.tiles[t])]
                              ELSE st.tiles,
                    !.despawn = IF bar # None THEN st.despawn \cup {bar} ELSE st.despawn,
                    !.selected = hit,
                    !.picked = hit,
                    !.unslotted = t,
                    !.parent = parent,
                    !.cards = cards1]
      IN IF bar # None /\ bar \notin DOMAIN bs THEN [st EXCEPT !.panic = TRUE, !.line = 627]
         ELSE IF parent = None THEN st1
         ELSE IF parent \notin DOMAIN st.cards THEN [st EXCEPT !.panic = TRUE, !.line = 640]
         ELSE register_detach(
                [st1 EXCEPT !.cards = [cards1 EXCEPT ![parent].stack_child = None]],
                hit, parent, child)

\* card.rs 656-682: mouse.just_released; in_slot: the hover point lies in the
\* slot rectangle of the hovered tile
release(st, hovered, in_slot, bs) ==
    IF st.panic \/ st.selected = None THEN st
    ELSE IF st.selected \notin DOMAIN st.cards THEN [st EXCEPT !.panic = TRUE, !.line = 658]
    ELSE
      LET entity == st.selected
          card == st.cards[entity]
          st1 == [st EXCEPT !.selected = None, !.released = entity]
          free == FreeBars(bs, st.roots, st.tiles, {})
      IN IF in_stack(card) \/ hovered = None \/ ~in_slot THEN st1
         ELSE IF free = {} /\ slot_guard(st.tiles[hovered], card)
              THEN [st EXCEPT !.exhausted = TRUE]
         ELSE LET r == try_slotting_card(st.tiles[hovered], entity, card,
                                         IF free = {} THEN None ELSE Min(free)) IN
              IF r.result
              THEN [st1 EXCEPT !.tiles = [st.tiles EXCEPT ![hovered] = r.tile],
                               !.cards = [st.cards EXCEPT ![entity].slotted_in_tile = hovered],
                               !.new_bar = r.tile.progress_bar,
                               !.slot = <<[tile |-> hovered, card |-> entity, result |-> TRUE]>>]
              ELSE [st1 EXCEPT !.slot = <<[tile |-> hovered, card |-> entity, result |-> FALSE]>>]

\* The mouse edges a frame can see: pressed, released, or both in either
\* order.  A card is held only while the button is down, and with no card held
\* a release does nothing, so the button's state adds nothing to `selected`.
MouseInputs ==
    IF selected # None THEN {"none", "release", "release_press"}
    ELSE {"none", "press", "press_release"}

\* card.rs 559-683 in a frame whose mouse edges are among `inputs`
Select(inputs) ==
    /\ pc = "select_card"
    /\ \E input \in inputs, hit \in DOMAIN cards \cup {None}, in_slot \in BOOLEAN :
        LET st0 == [cards |-> cards, tiles |-> tiles, roots |-> roots, queued |-> queued,
                    selected |-> selected, despawn |-> {}, new_bar |-> None,
                    picked |-> None, unslotted |-> None, parent |-> None,
                    released |-> None, slot |-> <<>>,
                    panic |-> FALSE, line |-> 0, exhausted |-> FALSE]
            st1 == IF input \in {"press", "press_release", "release_press"}
                   THEN press(st0, hit, bars) ELSE st0
            st == IF input \in {"release", "press_release", "release_press"}
                  THEN release(st1, hovered_tile, in_slot, bars) ELSE st1
        IN /\ input \in {"none", "release"} => hit = None
           /\ input \in {"none", "press"} => in_slot = FALSE
           /\ IF st.panic \/ st.exhausted
              THEN /\ pc' = IF st.panic THEN "panic" ELSE "exhausted"
                   /\ ev' = [op |-> pc', line |-> st.line]
                   /\ UNCHANGED <<cards, tiles, roots, queued, selected, bars>>
              ELSE /\ pc' = "hover_tile"
                   /\ cards' = st.cards
                   /\ tiles' = st.tiles
                   /\ roots' = st.roots
                   /\ queued' = st.queued
                   /\ selected' = st.selected
                   /\ bars' = LET kept == [b \in (DOMAIN bars) \ st.despawn |-> bars[b]] IN
                              IF st.new_bar # None
                              THEN Put(kept, st.new_bar,
                                       [current |-> 0, total |-> WoodsTotal, owner |-> None])
                              ELSE kept
                   /\ ev' = [op |-> "select_card", picked |-> st.picked,
                             unslotted |-> st.unslotted,
                             parent |-> st.parent, released |-> st.released,
                             slot |-> st.slot]
    /\ UNCHANGED <<hovered_tile, deferred, delta, tick, tiles_done, merged, placed>>

SelectCard == Select(MouseInputs)

\* select_card in a frame without a mouse edge
SelectCardIdle == Select({"none"})

\* ---------------------------------------------------------------- hover_tile
\* tile.rs 334-348: `location` is the grid tile under the hover point, if any.
\* Line 339 unwraps the TileSlotEffect of that tile, which only tiles with a
\* slot carry (tile.rs 262-279).
HoverTile ==
    /\ pc = "hover_tile"
    /\ IF selected = None
       THEN /\ pc' = "move_cards"
            /\ ev' = [op |-> "hover_tile"]
            /\ UNCHANGED hovered_tile
       ELSE \E location \in TileIds \cup {None} :
              IF location # None /\ tiles[location].variant # "Woods"
              THEN /\ pc' = "panic"
                   /\ ev' = [op |-> "panic", line |-> 339]
                   /\ UNCHANGED hovered_tile
              ELSE /\ pc' = "move_cards"
                   /\ ev' = [op |-> "hover_tile"]
                   /\ hovered_tile' = location
    /\ UNCHANGED <<cards, roots, queued, selected, tiles, bars, deferred,
                   delta, tick, tiles_done, merged, placed>>

\* ---------------------------------------------------------------- move_cards
\* card.rs 442-459: position_stack gives the card at depth d of the chain the
\* z of the chain's first card plus 0.01 * d: the pairs it orders
position_stack(cs, root) ==
    LET ch == walk_chain(cs, root, MaxCards) IN
    {pr \in CardIds \X CardIds :
        \E i, j \in DOMAIN ch : i < j /\ pr = <<ch[i], ch[j]>>}

\* card.rs 411-439.  The first loop gives every card the z of its own
\* animation; the second places the chain of each registry key that exists.
\* move_cards runs after select_card and before evaluate_stacks; hover_tile
\* reads and writes nothing that it does.
MoveCards ==
    /\ pc = "move_cards"
    /\ LET keys == DOMAIN roots \cap DOMAIN cards IN
       IF \E k \in keys : chain_hangs(cards, k)
       THEN /\ pc' = "hang"
            /\ ev' = [op |-> "hang"]
            /\ UNCHANGED placed
       ELSE /\ pc' = "evaluate_stacks"
            /\ ev' = [op |-> "move_cards"]
            /\ placed' = UNION {position_stack(cards, k) : k \in keys}
    /\ UNCHANGED <<cards, roots, queued, selected, hovered_tile, tiles, bars,
                   deferred, delta, tick, tiles_done, merged>>

\* ------------------------------------------------------------- progress bars
\* ProgressBar::add, ::finished and ::reset
bar_add(bar, dt) == [bar EXCEPT !.current = bar.current + dt]

bar_finished(bar) == bar.current >= bar.total

bar_reset(bar) == [bar EXCEPT !.current = 0]

\* the first n elements of a set of ids, smallest first
RECURSIVE Take(_, _)
Take(S, n) ==
    IF n = 0 \/ S = {} THEN <<>>
    ELSE <<Min(S)>> \o Take(S \ {Min(S)}, n - 1)

\* applying queued spawn commands: the cards they add
Spawned(dfr) == [c \in {dfr[i].id : i \in DOMAIN dfr} |->
                    NewCard(dfr[CHOOSE i \in DOMAIN dfr : dfr[i].id = c].card_type)]

\* ------------------------------------------------------------ evaluate_tiles
\* tile.rs 359-399: what a tile whose bar completes spawns
tile_product(tile) == IF tile.variant = "Woods" THEN "Log" ELSE "Goblin"

\* tile.rs 363-364, 382-383: the tile's bar, if the tile has one that exists
ticking_bar(tile, bs) ==
    IF tile.progress_bar # None /\ tile.progress_bar \in DOMAIN bs
    THEN tile.progress_bar ELSE None

\* tile.rs 18-21 orders evaluate_tiles after hover_tile only.  It touches the
\* tile bars and queues spawns, which no card system reads, so running it
\* anywhere after evaluate_stacks comes to running it after combat.
\* tile.rs 377 and 397 left out: the timer that finished is left as it is
restart_never(bar) == bar

\* tile.rs 377, 397: bar.reset() of the timer that finished
restart(bar) == bar_reset(bar)

\* tile.rs 21 without the .after(hover_tile)
tiles_turn_any(p) == p \in {"collide_cards", "select_card", "evaluate_stacks", "end"}

\* tile.rs 21: the places of a frame at which evaluate_tiles runs
tiles_turn(p) == p \in {"evaluate_stacks", "end"}

EvaluateTiles ==
    /\ tiles_turn(pc)
    /\ ~tiles_done
    /\ \E order \in Orders({t \in TileIds :
                        /\ ticking_bar(tiles[t], bars) # None
                        /\ bar_finished(bar_add(bars[tiles[t].progress_bar], delta))}) :
       LET ticking == {t \in TileIds : ticking_bar(tiles[t], bars) # None}
           done == {order[i] : i \in DOMAIN order}
           ids == Take(FreeCards(cards, roots, queued, selected, tiles, deferred),
                       Len(order))
           owner(b) == CHOOSE t \in ticking : tiles[t].progress_bar = b
       IN /\ bars' = [b \in DOMAIN bars |->
                        IF \E t \in ticking : tiles[t].progress_bar = b
                        THEN IF owner(b) \in done
                             THEN restart(bar_add(bars[b], delta))
                             ELSE bar_add(bars[b], delta)
                        ELSE bars[b]]
          /\ deferred' = deferred \o
                [i \in 1..Len(ids) |-> [id |-> ids[i], card_type |-> tile_product(tiles[order[i]])]]
          /\ ev' = [op |-> "evaluate_tiles", produced |-> done]
    /\ tiles_done' = TRUE
    /\ UNCHANGED <<cards, roots, queued, selected, hovered_tile, tiles,
                   delta, tick, pc, merged, placed>>

\* ----------------------------------------------------------- evaluate_stacks
\* card.rs 706 with >= for ==
is_breed_at_least_two(card_types) ==
    /\ (IF "Villager" \in DOMAIN card_types THEN card_types["Villager"] ELSE 0) >= 2
    /\ Cardinality(DOMAIN card_types) = 1

\* card.rs 705-706
is_breed(card_types) ==
    /\ (IF "Villager" \in DOMAIN card_types THEN card_types["Villager"] ELSE 0) = 2
    /\ Cardinality(DOMAIN card_types) = 1

\* the removal at card.rs 699 left out
drop_non_root_never(rts, entity, root) == rts

\* card.rs 697-702: the registry without the entry of a queued non-root
drop_non_root(rts, entity, root) ==
    IF root # entity THEN Remove(rts, entity) ELSE rts

\* card.rs 695-745: one queued entity
recompute(st, entity, cs, bs, tls) ==
    LET root == find_stack_root(cs, entity) IN
    IF st.hang \/ st.panic \/ st.exhausted THEN st
    ELSE IF root = Hang \/ chain_hangs(cs, root) THEN [st EXCEPT !.hang = TRUE]
    ELSE
      LET removed == IF root # entity /\ entity \in DOMAIN st.roots
                     THEN {st.roots[entity]} ELSE {}
          roots1 == drop_non_root(st.roots, entity, root)
          breed == is_breed(get_cards_types(root, cs))
          free == FreeBars(bs, st.roots, tls, DOMAIN st.reserved)
          replaced == IF root \in DOMAIN roots1 THEN {roots1[root]} ELSE {}
          cancelled == {x.progress_bar : x \in {y \in removed \cup replaced : y.kind = "Breed"}}
      IN IF breed /\ free = {} THEN [st EXCEPT !.exhausted = TRUE]
         ELSE IF \E b \in cancelled : b \notin DOMAIN bs \cup DOMAIN st.reserved
              THEN [st EXCEPT !.panic = TRUE, !.line = 741]
         ELSE [st EXCEPT
                 !.roots = Put(roots1, root, IF breed THEN Breed(Min(free)) ELSE Nothing),
                 !.reserved = IF breed THEN Put(st.reserved, Min(free), root)
                              ELSE st.reserved,
                 !.despawn = st.despawn \cup cancelled,
                 !.dropped = IF removed # {} THEN st.dropped \cup {entity} ELSE st.dropped]

RECURSIVE recompute_all(_, _, _, _, _)
recompute_all(st, order, cs, bs, tls) ==
    IF order = <<>> THEN st
    ELSE recompute_all(recompute(st, Head(order), cs, bs, tls), Tail(order), cs, bs, tls)

\* card.rs 749-782: the roots whose Breed bar exists and is advanced
breeding(rts, bs) ==
    {r \in DOMAIN rts : rts[r].kind = "Breed" /\ rts[r].progress_bar \in DOMAIN bs}

\* card.rs 757: the advanced bar has finished
completes(rts, bs, r, dt) == bar_finished(bar_add(bs[rts[r].progress_bar], dt))

\* the assignment at card.rs 779 left out
reset_type_kept(stack_type) == stack_type

\* card.rs 778-781
reset_type(stack_type) == Pending

EvaluateStacks ==
    /\ pc = "evaluate_stacks"
    /\ \E order \in Orders(queued) :
        LET st0 == [roots |-> roots, reserved |-> <<>>, despawn |-> {}, dropped |-> {},
                    hang |-> FALSE, panic |-> FALSE, line |-> 0, exhausted |-> FALSE]
            st == recompute_all(st0, order, cards, bars, tiles)
            ticked == breeding(st.roots, bars)
            done == {r \in ticked : completes(st.roots, bars, r, delta)}
            parents == {r \in done : r \in DOMAIN cards}
            ids == Take(FreeCards(cards, st.roots, done, selected, tiles, deferred),
                        Cardinality(parents))
            born == [i \in 1..Len(ids) |-> [id |-> ids[i], card_type |-> "Villager"]]
            gone == st.despawn \cup {st.roots[r].progress_bar : r \in done}
            advanced == [b \in DOMAIN bars |->
                           IF \E r \in ticked : st.roots[r].progress_bar = b
                           THEN bar_add(bars[b], delta) ELSE bars[b]]
            fresh == [b \in DOMAIN st.reserved |->
                        [current |-> 0, total |-> BreedTotal, owner |-> st.reserved[b]]]
            all == fresh @@ advanced
        IN IF st.hang \/ st.panic \/ st.exhausted
           THEN /\ pc' = (IF st.hang THEN "hang" ELSE IF st.panic THEN "panic" ELSE "exhausted")
                /\ ev' = [op |-> pc', line |-> st.line]
                /\ UNCHANGED <<cards, roots, queued, bars, deferred>>
           ELSE /\ pc' = "handle_enemies"
                /\ roots' = [r \in DOMAIN st.roots |->
                               IF r \in done THEN reset_type(st.roots[r]) ELSE st.roots[r]]
                /\ queued' = done
                /\ bars' = [b \in (DOMAIN all) \ gone |-> all[b]]
                /\ cards' = Spawned(deferred \o born) @@ cards
                /\ deferred' = <<>>
                /\ ev' = [op |-> "evaluate_stacks", processed |-> queued,
                          dropped |-> st.dropped, completed |-> done,
                          spawned |-> Cardinality(parents)]
    /\ UNCHANGED <<selected, hovered_tile, tiles, delta, tick, tiles_done, merged, placed>>

\* ------------------------------------------------------------ handle_enemies
\* card.rs 840-866: the hostile cards that look for a target
seeking(cs) ==
    {c \in DOMAIN cs : cs[c].combat_state = NoCombat /\ class(cs[c].card_type) = "Enemy"}

\* card.rs 846-847: the cards a hostile card may choose among
candidates(cs) == {c \in DOMAIN cs : class(cs[c].card_type) = "Villager"}

\* card.rs 873-881: the state of a hostile card after it chose `target`;
\* near: the target is within the strike range
engage(card, target, near) ==
    IF near
    THEN [card EXCEPT !.combat_state =
            [target |-> target, elapsed |-> 0, duration |-> AttackCooldown]]
    ELSE [card EXCEPT !.combat_state = NoCombat]

\* card.rs 849-853 with < for >: the farther card replaces the current one
RECURSIVE nearest_from_farther(_, _, _)
nearest_from_farther(current, order, dist) ==
    IF order = <<>> THEN current
    ELSE nearest_from_farther(
           IF current = None \/ dist[current] < dist[Head(order)]
           THEN Head(order) ELSE current,
           Tail(order), dist)

\* card.rs 845-862: the inner loop over the cards in iteration order `order`,
\* restricted to the Villager class; dist: the distance of each to the hostile
\* card; current: current_target
RECURSIVE nearest_from(_, _, _)
nearest_from(current, order, dist) ==
    IF order = <<>> THEN current
    ELSE nearest_from(
           IF current = None \/ dist[current] > dist[Head(order)]
           THEN Head(order) ELSE current,
           Tail(order), dist)

\* card.rs 840-866: enemy_targets, the target of each hostile card that looks
\* for one; a hostile card for which current_target stays None is left out
enemy_targets(cs, order, dist) ==
    [e \in {x \in seeking(cs) : nearest_from(None, order, dist[x]) # None} |->
        nearest_from(None, order, dist[e])]

\* card.rs 873 with >= for >
out_of_range_at(d) == d >= StrikeRange

\* card.rs 873: distance.length() > 1.0
out_of_range(d) == d > StrikeRange

\* card.rs 873-876: the hostile cards that the second loop moves
moved(targets, dist) ==
    {e \in DOMAIN targets : out_of_range(dist[e][targets[e]])}

\* card.rs 868-891: the cards after the second loop
handled(cs, targets, dist) ==
    [c \in DOMAIN cs |->
       IF c \in DOMAIN targets
       THEN engage(cs[c], targets[c], ~out_of_range(dist[c][targets[c]]))
       ELSE cs[c]]

\* The distances follow from the card positions, which the player's drags and
\* the hostile cards' approach set freely; the iteration order of the query
\* is the engine's.  distances: the distances that the frame allows
Handle(distances) ==
    /\ pc = "handle_enemies"
    /\ \E order \in Orders(candidates(cards)),
          dist \in [seeking(cards) -> [candidates(cards) -> distances]] :
         cards' = handled(cards, enemy_targets(cards, order, dist), dist)
    /\ pc' = "combat"
    /\ ev' = [op |-> "handle_enemies"]
    /\ UNCHANGED <<roots, queued, selected, hovered_tile, tiles, bars,
                   deferred, delta, tick, tiles_done, merged, placed>>

HandleEnemies == Handle(Distances)

\* handle_enemies while every enemy is out of reach of its target
HandleEnemiesFar == Handle({d \in Distances : d > StrikeRange})

\* -------------------------------------------------------------------- combat
\* Timer::tick on a repeating timer
cooldown_tick(combat_state, dt) ==
    [combat_state EXCEPT !.elapsed = (combat_state.elapsed + dt) % combat_state.duration]

just_finished(combat_state, dt) == combat_state.elapsed + dt >= combat_state.duration

\* card.rs 917 without the .max(0)
damaged_health_unclamped(health, damage) == health - damage

\* card.rs 916-917
damaged_health(health, damage) ==
    IF health - damage > 0 THEN health - damage ELSE 0

\* the test at card.rs 918 left out
retaliation_always(target_state, entity) ==
    [target |-> entity, elapsed |-> 0, duration |-> RetaliateCooldown]

\* card.rs 918-923
retaliation(target_state, entity) ==
    IF target_state = NoCombat
    THEN [target |-> entity, elapsed |-> 0, duration |-> RetaliateCooldown]
    ELSE target_state

\* card.rs 924 with < for ==
dies_below_zero(health) == health < 0

\* card.rs 924-927: the target is to be destroyed
dies(health) == health = 0

\* card.rs 929 left out: the attacker stays set on the missing target
disengage_never(card) == card

\* card.rs 928-930: the attacker whose target could not be fetched
disengage(card) == [card EXCEPT !.combat_state = NoCombat]

\* card.rs 900-931: one card of the loop; st.cards still holds the cards whose
\* despawn is queued
strike(st, entity, dt) ==
    LET card == st.cards[entity] IN
    IF card.combat_state = NoCombat THEN st
    ELSE
      LET ticked == [st.cards EXCEPT ![entity].combat_state =
                        cooldown_tick(card.combat_state, dt)]
          damaged_entity == card.combat_state.target
          damage == get_initial_stats(card.card_type).damage
      IN IF ~just_finished(card.combat_state, dt) THEN [st EXCEPT !.cards = ticked]
         ELSE IF damaged_entity \in DOMAIN st.cards /\ damaged_entity # entity
         THEN LET health == damaged_health(ticked[damaged_entity].health, damage)
                  hit == [ticked EXCEPT
                            ![damaged_entity].health = health,
                            ![damaged_entity].combat_state =
                                retaliation(ticked[damaged_entity].combat_state, entity)]
              IN IF dies(health)
                 THEN [st EXCEPT
                         !.cards = [hit EXCEPT ![entity].combat_state = NoCombat],
                         !.killed = st.killed \cup {damaged_entity}]
                 ELSE [st EXCEPT !.cards = hit]
         ELSE [st EXCEPT !.cards = [ticked EXCEPT ![entity] = disengage(ticked[entity])]]

RECURSIVE strike_all(_, _, _)
strike_all(st, order, dt) ==
    IF order = <<>> THEN st
    ELSE strike_all(strike(st, Head(order), dt), Tail(order), dt)

\* despawn_recursive of the killed cards: the cards and the bars that remain
despawn_cards(cs, killed) == [c \in (DOMAIN cs) \ killed |-> cs[c]]

despawn_children(bs, killed) ==
    [b \in {x \in DOMAIN bs : bs[x].owner \notin killed} |-> bs[b]]

\* card.rs 900-913: the cards the loop can find in combat, at its start or
\* once struck; the others are passed over whatever their place in the order
fighters(cs) ==
    {c \in DOMAIN cs : cs[c].combat_state # NoCombat}
    \cup {cs[c].combat_state.target : c \in {x \in DOMAIN cs : cs[x].combat_state # NoCombat}}

Combat ==
    /\ pc = "combat"
    /\ \E order \in Orders(fighters(cards) \cap DOMAIN cards) :
        LET st == strike_all([cards |-> cards, killed |-> {}], order, delta)
        IN /\ cards' = Spawned(deferred) @@ despawn_cards(st.cards, st.killed)
           /\ bars' = despawn_children(bars, st.killed)
           /\ ev' = [op |-> "combat", killed |-> st.killed]
    /\ deferred' = <<>>
    /\ pc' = "end"
    /\ UNCHANGED <<roots, queued, selected, hovered_tile, tiles, delta, tick,
                   tiles_done, merged, placed>>

\* ------------------------------------------------------------- end of a tick
\* the schedule's last command flush; the next frame starts
End(counted) ==
    /\ pc = "end"
    /\ tiles_done
    /\ cards' = Spawned(deferred) @@ cards
    /\ deferred' = <<>>
    /\ pc' = "collide_cards"
    /\ tiles_done' = FALSE
    /\ ev' = [op |-> "end"]
    /\ tick' = IF counted THEN tick + 1 ELSE tick
    /\ UNCHANGED <<roots, queued, selected, hovered_tile, tiles, bars, delta, merged, placed>>

EndOfUpdate == End(TRUE)

\* the same with the frames not counted, for runs of any length
NextFrame == End(FALSE)

Next ==
    \/ CollideCards
    \/ SelectCard
    \/ HoverTile
    \/ MoveCards
    \/ EvaluateTiles
    \/ EvaluateStacks
    \/ HandleEnemies
    \/ Combat
    \/ EndOfUpdate

Spec == Init /\ [][Next]_vars

\* Runs of any length in which the player leaves the mouse alone and no enemy
\* comes within reach of a card: cards still collide, tiles produce, stacks
\* breed.  The app's runner starts a frame whenever the last has ended, and
\* each system of a frame runs.
LiveNext ==
    \/ CollideCards
    \/ SelectCardIdle
    \/ HoverTile
    \/ MoveCards
    \/ EvaluateTiles
    \/ EvaluateStacks
    \/ HandleEnemiesFar
    \/ Combat
    \/ NextFrame

\* a frame in progress
\* Runs of any length in which the player leaves the mouse alone and the cards
\* lie apart: tiles produce, enemies come within reach or not, cards fight.
\* Nothing that combat reads or writes depends on the stacks or the slots.
FightNext ==
    \/ CollideCardsApart
    \/ SelectCardIdle
    \/ HoverTile
    \/ MoveCards
    \/ EvaluateTiles
    \/ EvaluateStacks
    \/ HandleEnemies
    \/ Combat
    \/ NextFrame

SpecFight == Init /\ [][FightNext]_vars

\* Runs of any length in which the cards lie apart, so that no stack forms, and
\* no enemy comes within reach of a card: the player picks cards up, hovers and
\* releases them as they like, and tiles produce.
SlotNext ==
    \/ CollideCardsApart
    \/ SelectCard
    \/ HoverTile
    \/ MoveCards
    \/ EvaluateTiles
    \/ EvaluateStacks
    \/ HandleEnemiesFar
    \/ Combat
    \/ NextFrame

Stages == {"collide_cards", "select_card", "hover_tile", "move_cards",
           "evaluate_stacks", "handle_enemies", "combat", "end"}

\* the schedule moves on to another system, or to the next frame
Advance == pc \in Stages /\ pc' \in Stages

SpecLive == Init /\ [][LiveNext]_vars /\ WF_pc(Advance)

SpecSlot == Init /\ [][SlotNext]_vars /\ WF_pc(Advance)

\* a tick has completed and the next has not begun
TickEnd == pc = "collide_cards"

\* the system that ran last completed (no panic, no endless walk)
Ran(op) == ev.op = op

\* the recomputation pass of this tick has run and the next has not begun
AfterRecompute == pc \in {"handle_enemies", "combat", "end"} \/ (TickEnd /\ tick > 0)

\* ---------------------------------------------------------------------- C1
\* the links of card c have their counterpart on a live card
links_agree(cs, c) ==
    /\ cs[c].stack_parent # None =>
         /\ cs[c].stack_parent \in DOMAIN cs
         /\ cs[cs[c].stack_parent].stack_child = c
    /\ cs[c].stack_child # None =>
         /\ cs[c].stack_child \in DOMAIN cs
         /\ cs[cs[c].stack_child].stack_parent = c

\* C1: at the end of every tick the stack links of every live card are
\* mutually consistent: a card's stack_parent P is a live card whose
\* stack_child is that card, and a card's stack_child B is a live card whose
\* stack_parent is that card, whatever attaches, pick-ups, slottings and
\* combat deaths came before.
C1_LinksConsistentAtTickEnd ==
    TickEnd => \A c \in DOMAIN cards : links_agree(cards, c)

\* C1: a card was killed in the tick that ends here
C1_DeathInStack ==
    /\ TickEnd
    /\ \E c \in DOMAIN cards :
         cards[c].stack_parent # None /\ cards[c].stack_parent \notin DOMAIN cards

\* ---------------------------------------------------------------------- C2
\* the live cards linked to c, directly or through other live cards
RECURSIVE grow(_, _, _)
grow(cs, S, fuel) ==
    LET T == S \cup {d \in DOMAIN cs : \E m \in S :
                        \/ cs[m].stack_child = d \/ cs[m].stack_parent = d
                        \/ cs[d].stack_child = m \/ cs[d].stack_parent = m}
    IN IF fuel = 0 \/ T = S THEN S ELSE grow(cs, T, fuel - 1)

members(cs, c) == grow(cs, {c}, MaxCards)

\* C2: at the end of every tick each stack of two or more linked cards has
\* exactly one registry entry among its members, and that entry is keyed by
\* the member that has no stack_parent.
C2_OneEntryPerStack ==
    TickEnd =>
      \A c \in DOMAIN cards :
        Cardinality(members(cards, c)) >= 2 =>
          \E r \in members(cards, c) :
            /\ cards[r].stack_parent = None
            /\ members(cards, c) \cap DOMAIN roots = {r}

\* ---------------------------------------------------------------------- C3
\* C3: once the recomputation pass of a tick has run, and until the next tick
\* begins, no card that is a key of the StackRoot registry has a stack_parent.
C3_RegistryKeysAreRoots ==
    AfterRecompute =>
      \A e \in DOMAIN roots : e \in DOMAIN cards => cards[e].stack_parent = None

\* C3: the pass has just removed the entry of a card that sits on another
\* card, and other entries remain
C3_EntryOfNonRootDropped ==
    /\ Ran("evaluate_stacks")
    /\ \E e \in ev.dropped : e \in DOMAIN cards /\ cards[e].stack_parent \in DOMAIN cards
    /\ DOMAIN roots # {}

\* ---------------------------------------------------------------------- C4
\* card t is met when following stack_child links from card y
on_chain(cs, y, t) ==
    LET ch == walk_chain(cs, y, MaxCards) IN \E i \in DOMAIN ch : ch[i] = t

\* no two live cards name the same card as their child, or as their parent
no_shared_links(cs) ==
    \A a, b \in DOMAIN cs :
      a # b =>
        /\ cs[a].stack_child # None => cs[a].stack_child # cs[b].stack_child
        /\ cs[a].stack_parent # None => cs[a].stack_parent # cs[b].stack_parent

\* C4: every attach made by collide_cards puts a mover X that had no
\* stack_parent onto a card T that had no stack_child and lies on the chain of
\* the back card Y, both unslotted and not of the Enemy class; it sets
\* T.stack_child = X and X.stack_parent = T, leaves T with a registry entry
\* (Pending if it had none) and queues T.  collide_cards changes no card
\* other than the attached ones and never replaces a link that was set, and
\* in no state do two cards share a parent or a child.
C4_AttachOnlyOntoFreeEnds ==
    [][/\ no_shared_links(cards')
       /\ (pc = "collide_cards" /\ ev'.op = "collide_cards") =>
            /\ \A i \in DOMAIN ev'.attached :
                 LET x == ev'.attached[i][1]
                     t == ev'.attached[i][2]
                     y == ev'.attached[i][3]
                 IN /\ x \in DOMAIN cards /\ t \in DOMAIN cards /\ x # t
                    /\ cards[x].stack_parent = None
                    /\ cards[t].stack_child = None
                    /\ cards[x].slotted_in_tile = None /\ cards[x].card_type # "Goblin"
                    /\ cards[t].slotted_in_tile = None /\ cards[t].card_type # "Goblin"
                    /\ on_chain(cards', y, t)
                    /\ cards'[t].stack_child = x
                    /\ cards'[x].stack_parent = t
                    /\ t \in DOMAIN roots'
                    /\ t \notin DOMAIN roots => roots'[t] = Pending
                    /\ t \in queued'
            /\ DOMAIN cards' = DOMAIN cards
            /\ \A c \in DOMAIN cards :
                 /\ cards[c].stack_parent # None =>
                      cards'[c].stack_parent = cards[c].stack_parent
                 /\ cards[c].stack_child # None =>
                      cards'[c].stack_child = cards[c].stack_child
                 /\ cards'[c] # cards[c] =>
                      \E i \in DOMAIN ev'.attached :
                        c \in {ev'.attached[i][1], ev'.attached[i][2]}
      ]_vars

\* C4: a mover has just been attached onto the tail of the back card's chain,
\* a card other than the back card, which got its registry entry by it
C4_AttachedOntoTail ==
    /\ Ran("collide_cards")
    /\ \E i \in DOMAIN ev.attached :
         /\ ev.attached[i][2] # ev.attached[i][3]
         /\ cards[ev.attached[i][2]].stack_child = ev.attached[i][1]
         /\ roots[ev.attached[i][2]] = Pending

two_villagers(cs, root) ==
    LET ch == walk_chain(cs, root, MaxCards) IN
    Len(ch) = 2 /\ \A i \in DOMAIN ch : ch[i] # Hang /\ cs[ch[i]].card_type = "Villager"

\* C6: for every queued card the recomputation pass processes, the root its
\* stack_parent walk ends at has, after the pass, a Breed entry with a new
\* timer if its chain is exactly two Villagers, and a Nothing entry for every
\* other chain.
C6_BreedIffTwoVillagers ==
    [][(pc = "evaluate_stacks" /\ ev'.op = "evaluate_stacks") =>
         \A e \in queued :
           LET root == find_stack_root(cards, e) IN
           /\ root \in DOMAIN roots'
           /\ IF two_villagers(cards, root)
              THEN /\ roots'[root].kind = "Breed"
                   /\ roots'[root].progress_bar \in (DOMAIN bars') \ DOMAIN bars
              ELSE roots'[root] = Nothing
      ]_vars

\* C6: the pass has just classified a root heading three Villagers, whose
\* entry was queued, as Nothing
C6_ThreeVillagersAreNothing ==
    /\ Ran("evaluate_stacks")
    /\ \E r \in ev.processed :
         /\ r \in DOMAIN cards /\ cards[r].stack_parent = None
         /\ roots[r] = Nothing
         /\ Len(walk_chain(cards, r, MaxCards)) = 3
         /\ \A c \in DOMAIN cards : on_chain(cards, r, c) => cards[c].card_type = "Villager"

\* ---------------------------------------------------------------------- C7
\* the recomputation pass of the tick has run and the tick has not ended
PassDone == pc \in {"handle_enemies", "combat", "end"}

\* C7: once the recomputation pass that follows has run, a card that had a
\* registry entry when collide_cards attached it as the mover onto another
\* stack has no entry while it sits on another card, and the timer of the
\* Breed entry it had no longer exists.
C7_MergedRootReleased ==
    PassDone =>
      \A x \in DOMAIN merged :
        /\ (x \in DOMAIN cards /\ cards[x].stack_parent # None) => x \notin DOMAIN roots
        /\ merged[x].kind = "Breed" => merged[x].progress_bar \notin DOMAIN bars

\* C7: the pass has removed the entry of a merged root and destroyed its timer
C7_MergedBreedRootDropped ==
    /\ PassDone
    /\ \E x \in DOMAIN merged :
         /\ merged[x].kind = "Breed"
         /\ x \in DOMAIN cards /\ cards[x].stack_parent \in DOMAIN cards
         /\ x \notin DOMAIN roots
         /\ merged[x].progress_bar \notin DOMAIN bars

\* ---------------------------------------------------------------------- C8
\* a Villager that is in no stack and in no slot
lone_villager(cs, c) ==
    /\ c \in DOMAIN cs
    /\ cs[c].card_type = "Villager"
    /\ cs[c].stack_parent = None
    /\ cs[c].stack_child = None
    /\ cs[c].slotted_in_tile = None

\* r is the root of a stack of exactly two Villagers, r and the card on it
intact_pair(cs, r) ==
    /\ r \in DOMAIN cs
    /\ cs[r].card_type = "Villager"
    /\ cs[r].stack_parent = None
    /\ cs[r].stack_child \in DOMAIN cs
    /\ cs[r].stack_child # r
    /\ cs[cs[r].stack_child].card_type = "Villager"
    /\ cs[cs[r].stack_child].stack_parent = r
    /\ cs[cs[r].stack_child].stack_child = None

Intact(r) == intact_pair(cards, r)

\* the timer of root r has just completed
Bred(r) == ev.op = "evaluate_stacks" /\ r \in ev.completed

Villagers(cs) == {c \in DOMAIN cs : cs[c].card_type = "Villager"}

\* two lone Villagers, neither held, collide: the one in front is put on the
\* other, which gets a registry entry and is queued
C8_Collide ==
    (pc = "collide_cards" /\ ev'.op = "collide_cards" /\ ev'.batch # <<>>) =>
      LET e == ev'.batch[1]
          x == IF e.e1_in_front THEN e.e1 ELSE e.e2
          y == IF e.e1_in_front THEN e.e2 ELSE e.e1
      IN (/\ x # y
          /\ lone_villager(cards, x)
          /\ lone_villager(cards, y)
          /\ selected \notin {x, y}) =>
           /\ cards'[x].stack_parent = y
           /\ cards'[y].stack_child = x
           /\ y \in DOMAIN roots'
           /\ y \in queued'

\* a queued root of two Villagers is classified Breed with a new timer of
\* 5 seconds that has not advanced
C8_Classify ==
    (pc = "evaluate_stacks" /\ ev'.op = "evaluate_stacks") =>
      \A r \in ev'.processed :
        intact_pair(cards, r) =>
          /\ roots'[r].kind = "Breed"
          /\ roots'[r].progress_bar \in (DOMAIN bars') \ DOMAIN bars
          /\ bars'[roots'[r].progress_bar] = [current |-> 0, total |-> 50, owner |-> r]

\* a completing Breed timer is destroyed, its root becomes Pending and is
\* queued, and one Villager is spawned for it (until the bounded pool of card
\* ids is used up); Villagers appear in no other way
C8_Complete ==
    /\ (pc = "evaluate_stacks" /\ ev'.op = "evaluate_stacks") =>
         /\ \A r \in ev'.completed :
              /\ r \in DOMAIN roots
              /\ roots[r].kind = "Breed"
              /\ roots[r].progress_bar \in DOMAIN bars
              /\ bars[roots[r].progress_bar].current + delta >= 50
              /\ roots[r].progress_bar \notin DOMAIN bars'
              /\ roots'[r] = Pending
              /\ r \in queued'
         /\ LET born == Cardinality(Villagers(cards') \ Villagers(cards))
                n == Cardinality(ev'.completed)
            IN \/ born = n
               \/ /\ born < n
                  /\ FreeCards(cards', roots', queued', selected', tiles', deferred') = {}
    /\ (Villagers(cards') \ Villagers(cards) # {}) =>
         (ev'.op = "evaluate_stacks" /\ ev'.completed # {})

\* C8: two unheld Villagers that collide are attached and their root is
\* classified Breed with a 5-second timer; a completing Breed timer spawns
\* exactly one Villager, is destroyed, and leaves its root Pending and queued;
\* and the timer of a stack of two Villagers that stays as it is completes
\* again and again
C8_BreedingRepeats ==
    /\ [][C8_Collide /\ C8_Classify /\ C8_Complete]_vars
    /\ \A r \in CardIds : <>[]Intact(r) => []<>Bred(r)

\* C8: the timer of an intact pair completes when a Villager bred earlier
\* is already there
C8_BredAgain ==
    /\ \E r \in CardIds : Bred(r) /\ Intact(r)
    /\ Cardinality(Villagers(cards)) = 4

\* ---------------------------------------------------------------------- C9
\* C9: a call of try_slotting_card returns true only for a Woods tile that
\* holds no card (its card, if any, was picked up earlier in the same call of
\* select_card) and a card of the Villager class; the tile then names the
\* card, the card names the tile, and the tile has a new timer of 15 seconds.
\* A call that returns false leaves the tile as it was, and a tile's
\* slotted_villager is set by a successful call only.
C9_SlotOnlyEmptyWoods ==
    [][/\ (pc = "select_card" /\ ev'.op = "select_card") =>
            \A i \in DOMAIN ev'.slot :
              LET t == ev'.slot[i].tile
                  c == ev'.slot[i].card
              IN IF ev'.slot[i].result
                 THEN /\ tiles[t].variant = "Woods"
                      /\ tiles[t].slotted_villager \in {None, ev'.picked}
                      /\ cards[c].card_type = "Villager"
                      /\ tiles'[t].slotted_villager = c
                      /\ cards'[c].slotted_in_tile = t
                      /\ tiles'[t].progress_bar \in (DOMAIN bars') \ DOMAIN bars
                      /\ bars'[tiles'[t].progress_bar].current = 0
                      /\ bars'[tiles'[t].progress_bar].total = 150
                 ELSE /\ tiles'[t].slotted_villager \in {tiles[t].slotted_villager, None}
                      /\ tiles'[t].progress_bar = tiles[t].progress_bar
                      /\ cards'[c].slotted_in_tile = None
       /\ \A t \in TileIds :
            (tiles'[t].slotted_villager # tiles[t].slotted_villager
               /\ tiles'[t].slotted_villager # None) =>
              /\ ev'.op = "select_card"
              /\ ev'.slot = <<[tile |-> t, card |-> tiles'[t].slotted_villager,
                               result |-> TRUE]>>
      ]_vars

\* C9: a card has just been released over the slot of a Woods tile that
\* holds another card, and the call has failed
C9_SecondSlotRefused ==
    /\ Ran("select_card")
    /\ \E i \in DOMAIN ev.slot :
         /\ ~ev.slot[i].result
         /\ tiles[ev.slot[i].tile].variant = "Woods"
         /\ tiles[ev.slot[i].tile].slotted_villager \in DOMAIN cards
         /\ tiles[ev.slot[i].tile].slotted_villager # ev.slot[i].card
         /\ cards[ev.slot[i].card].card_type = "Villager"

\* --------------------------------------------------------------------- C10
\* C10: at the end of a tick, the card that a Woods tile names as its
\* slotted_villager exists and names that tile as its slotted_in_tile
C10_SlottedCardPointsBack ==
    TickEnd =>
      \A t \in WoodsTiles :
        tiles[t].slotted_villager # None =>
          /\ tiles[t].slotted_villager \in DOMAIN cards
          /\ cards[tiles[t].slotted_villager].slotted_in_tile = t

\* C10: a tick has ended with a card in the slot of a Woods tile
C10_SlottedAtTickEnd ==
    /\ TickEnd
    /\ \E t \in WoodsTiles :
         /\ tiles[t].slotted_villager \in DOMAIN cards
         /\ cards[tiles[t].slotted_villager].slotted_in_tile = t

\* --------------------------------------------------------------------- C11
\* card.rs 616-631: the card is picked out of the slot of tile ev'.unslotted
C11_Pickup ==
    (pc = "select_card" /\ ev'.op = "select_card" /\ ev'.unslotted # None) =>
      LET t == ev'.unslotted
          c == ev'.picked
          old == tiles[t].progress_bar
      IN /\ old \notin DOMAIN bars'
         /\ IF ev'.slot # <<>> /\ ev'.slot[1].result
            THEN \* released in the same frame over a slot that takes it
                 LET t2 == ev'.slot[1].tile IN
                 /\ ev'.slot[1].card = c
                 /\ t2 # t => tiles'[t].slotted_villager = None
                 /\ tiles'[t2].slotted_villager = c
                 /\ cards'[c].slotted_in_tile = t2
                 /\ tiles'[t2].progress_bar # old
                 /\ bars'[tiles'[t2].progress_bar].current = 0
            ELSE /\ tiles'[t].slotted_villager = None
                 /\ cards'[c].slotted_in_tile = None

\* tile.rs 363-364: a Woods tile with an empty slot has no timer to advance
C11_NoTimerWhileEmpty ==
    \A t \in WoodsTiles :
      tiles[t].slotted_villager = None => ticking_bar(tiles[t], bars) = None

\* tile.rs 97-137: a Woods tile gets a timer only from a successful
\* try_slotting_card, and the timer starts at zero
C11_NewTimer ==
    \A t \in WoodsTiles :
      (/\ ticking_bar(tiles'[t], bars') # None
       /\ ticking_bar(tiles'[t], bars') # ticking_bar(tiles[t], bars)) =>
        /\ pc = "select_card"
        /\ ev'.op = "select_card"
        /\ Len(ev'.slot) = 1
        /\ ev'.slot[1].tile = t
        /\ ev'.slot[1].result
        /\ bars'[tiles'[t].progress_bar].current = 0

\* C11: picking a card out of the slot of Woods tile T empties the slot in that
\* step, clears the card's slotted_in_tile and destroys T's timer; T has no
\* timer, and so produces nothing, while its slot is empty, and the timer a
\* later successful try_slot gives it starts from zero
C11_PickUpFromSlotDropsTimer ==
    [][/\ C11_Pickup
       /\ C11_NoTimerWhileEmpty'
       /\ C11_NewTimer
       /\ (~tiles_done /\ tiles_done') =>
            \A t \in ev'.produced \cap WoodsTiles : tiles[t].slotted_villager # None]_vars

\* C11: a card has just been picked out of a slot whose timer had run, and the
\* slot is left empty with the timer gone
C11_PickedOutOfSlot ==
    /\ Ran("select_card")
    /\ ev.unslotted # None
    /\ ev.picked \in DOMAIN cards
    /\ cards[ev.picked].slotted_in_tile = None
    /\ tiles[ev.unslotted].slotted_villager = None
    /\ tiles[ev.unslotted].progress_bar # None
    /\ tiles[ev.unslotted].progress_bar \notin DOMAIN bars

\* --------------------------------------------------------------------- C12
\* card.rs 900: the passes of the loop of combat that this frame can make, each
\* with the state the loop has reached when it comes to `entity`
Strikes ==
    IF pc # "combat" THEN {}
    ELSE UNION {{[before |-> strike_all([cards |-> cards, killed |-> {}],
                                        SubSeq(order, 1, k - 1), delta),
                  entity |-> order[k]] : k \in 1..Len(order)} :
                order \in Orders(fighters(cards) \cap DOMAIN cards)}

\* card.rs 902-911: the cooldown of the card completes in this pass
fires(s) ==
    /\ s.before.cards[s.entity].combat_state # NoCombat
    /\ just_finished(s.before.cards[s.entity].combat_state, delta)

\* card.rs 908
target_of(s) == s.before.cards[s.entity].combat_state.target

\* card.rs 915: the attacker and its target are fetched
fetched(s) == target_of(s) \in DOMAIN s.before.cards /\ target_of(s) # s.entity

\* card.rs 914-927: the pass applies damage
applies(s) == fires(s) /\ fetched(s)

\* the state of the loop after the pass
after(s) == strike(s.before, s.entity, delta)

\* C12: a damage application leaves the target with max(0, H - D), for its
\* health H before and the attacker's damage D >= 0, and no card ever has a
\* negative health
C12_HealthClampedAtZero ==
    /\ \A c \in DOMAIN cards : cards[c].health >= 0
    /\ \A s \in Strikes :
         applies(s) =>
           LET H == s.before.cards[target_of(s)].health
               D == get_initial_stats(s.before.cards[s.entity].card_type).damage
               h == after(s).cards[target_of(s)].health
           IN /\ D >= 0
              /\ h >= 0
              /\ h >= H - D
              /\ h = 0 \/ h = H - D

\* C12: a card is about to be damaged by more than the health it has left
C12_DamageExceedsHealth ==
    \E s \in Strikes :
      /\ applies(s)
      /\ s.before.cards[target_of(s)].health
           < get_initial_stats(s.before.cards[s.entity].card_type).damage
      /\ after(s).cards[target_of(s)].health = 0

\* --------------------------------------------------------------------- C13
\* card.rs 914-927: what a damage application does besides the damage
C13_Strike ==
    \A s \in Strikes :
      applies(s) =>
        LET t == target_of(s)
            state == s.before.cards[s.entity].combat_state
        IN IF after(s).cards[t].health = 0
           THEN /\ after(s).cards[s.entity].combat_state = NoCombat
                /\ after(s).killed = s.before.killed \cup {t}
           ELSE /\ after(s).killed = s.before.killed
                /\ after(s).cards[s.entity].combat_state # NoCombat
                /\ after(s).cards[s.entity].combat_state.target = t
                /\ after(s).cards[s.entity].combat_state.duration = state.duration

\* card.rs 894-933: the cards that the run of combat destroys are those a
\* damage application of it brought to health 0
C13_Pass ==
    (pc = "combat" /\ pc' = "end") =>
      /\ ev'.killed \cap DOMAIN cards' = {}
      /\ (DOMAIN cards) \ ev'.killed \subseteq DOMAIN cards'
      /\ \A c \in ev'.killed :
           \E s \in Strikes :
             applies(s) /\ target_of(s) = c /\ after(s).cards[c].health = 0

\* C13: a damage application that brings its target to health 0 clears the
\* attacker's combat_state and has the target destroyed by the end of that run
\* of combat; one that leaves the target above 0 destroys nothing and leaves
\* the attacker engaged with the same target
C13_DeathOnlyAtZero == []C13_Strike /\ [][C13_Pass]_vars

\* C13: a run of combat has destroyed a card and left a damaged Villager alive
C13_KilledAndSurvivor ==
    /\ Ran("combat")
    /\ ev.killed # {}
    /\ ev.killed \cap DOMAIN cards = {}
    /\ \E c \in DOMAIN cards :
         /\ cards[c].card_type = "Villager"
         /\ cards[c].health \in 1..(VillagerHealth - 1)

\* --------------------------------------------------------------------- C14
\* card.rs 918-923: the combat_state of the target of a damage application
C14_Strike ==
    \A s \in Strikes :
      applies(s) =>
        LET t == target_of(s)
            state == s.before.cards[t].combat_state
        IN after(s).cards[t].combat_state =
             IF state = NoCombat
             THEN [target |-> s.entity, elapsed |-> 0, duration |-> RetaliateCooldown]
             ELSE state

\* card.rs 873-881: a card that handle_enemies sets on a target is hostile and
\* starts a cooldown of 1.0 s
C14_Engage ==
    (pc = "handle_enemies" /\ pc' = "combat") =>
      \A c \in DOMAIN cards :
        (cards[c].combat_state = NoCombat /\ cards'[c].combat_state # NoCombat) =>
          /\ class(cards[c].card_type) = "Enemy"
          /\ cards'[c].combat_state.elapsed = 0
          /\ cards'[c].combat_state.duration = AttackCooldown
          /\ class(cards[cards'[c].combat_state.target].card_type) = "Villager"

\* C14: a damaged target without a combat_state gains one on its attacker with
\* a repeating cooldown of 0.9 s, a damaged target with a combat_state keeps it
\* as it is, and the cooldown of the card that engaged first is 1.0 s
C14_TargetRetaliates == []C14_Strike /\ [][C14_Engage]_vars

\* C14: a Goblin has struck a Villager of health 3, which is left at health 2
\* with a combat_state on the Goblin
C14_VillagerStruckOnce ==
    /\ Ran("combat")
    /\ \E v \in DOMAIN cards, g \in DOMAIN cards :
         /\ cards[v].card_type = "Villager"
         /\ cards[v].health = VillagerHealth - GoblinDamage
         /\ cards[v].combat_state =
              [target |-> g, elapsed |-> 0, duration |-> RetaliateCooldown]
         /\ cards[g].card_type = "Goblin"
         /\ cards[g].combat_state # NoCombat
         /\ cards[g].combat_state.target = v
         /\ cards[g].combat_state.duration = AttackCooldown

\* --------------------------------------------------------------------- C15
\* C15 as stated: when the cooldown of a card completes and the card and its
\* target cannot both be fetched, the pass changes nothing but the cooldown
\* that has advanced: no health, no combat_state, no card queued for despawn
C15_FailedFetchChangesNothing ==
    \A s \in Strikes :
      (fires(s) /\ ~fetched(s)) =>
        /\ after(s).killed = s.before.killed
        /\ after(s).cards =
             [s.before.cards EXCEPT ![s.entity].combat_state =
                cooldown_tick(s.before.cards[s.entity].combat_state, delta)]

\* C15: when the cooldown of a card completes and the card and its target
\* cannot both be fetched, the pass clears the combat_state of the card and
\* changes nothing else: no health, no other combat_state, no card queued for
\* despawn
C15_FailedFetchDisengages ==
    \A s \in Strikes :
      (fires(s) /\ ~fetched(s)) =>
        /\ after(s).killed = s.before.killed
        /\ after(s).cards = [s.before.cards EXCEPT ![s.entity].combat_state = NoCombat]

\* C15: combat is about to run with a card whose cooldown completes and whose
\* target was destroyed in an earlier frame
C15_TargetGone ==
    \E s \in Strikes :
      /\ fires(s)
      /\ target_of(s) \notin DOMAIN cards
      /\ after(s).cards[s.entity].combat_state = NoCombat

\* --------------------------------------------------------------------- C16
\* the unwraps of a card fetched through a stack link or through the selection
StaleCardUnwraps == {640, 658}

\* C16: no system panics on a stack_parent or a selection that names a
\* destroyed card
C16_NoPanicOnDestroyedCard == ~(pc = "panic" /\ ev.line \in StaleCardUnwraps)

\* C16: the press on a card whose stack_parent was destroyed panics
C16_PressOnOrphan == pc = "panic" /\ ev.line = 640

\* C16: the release of a held card that was destroyed panics
C16_ReleaseOfDestroyed == pc = "panic" /\ ev.line = 658

\* --------------------------------------------------------------------- C17
\* the systems that make up the core phases
CorePhases == {"collide_cards", "select_card", "evaluate_stacks", "evaluate_tiles",
               "handle_enemies", "combat"}

\* card.rs 22-33: the chain of .after() of the card systems, with hover_tile
\* (tile.rs 20) in its place
Pipeline == <<"collide_cards", "select_card", "hover_tile", "move_cards",
              "evaluate_stacks", "handle_enemies", "combat", "end">>

\* the core phases that have run in the frame when the next system is p
phases_run(p, done) ==
    {x \in CorePhases \ {"evaluate_tiles"} :
        \E i, j \in DOMAIN Pipeline : i < j /\ Pipeline[i] = x /\ Pipeline[j] = p}
    \cup (IF done THEN {"evaluate_tiles"} ELSE {})

\* a step runs the core phase x
runs(x) ==
    IF x = "evaluate_tiles" THEN ~tiles_done /\ tiles_done'
    ELSE pc = x /\ pc' # pc

\* the order the claim states
ClaimedOrder == <<"select_card", "collide_cards", "evaluate_stacks", "evaluate_tiles",
                  "handle_enemies", "combat">>

\* card.rs 22-33, tile.rs 20-21: the pairs (x, y) of core phases that the
\* constraints order, x before y
Ordered ==
    {<<"collide_cards", "select_card">>, <<"collide_cards", "evaluate_stacks">>,
     <<"collide_cards", "handle_enemies">>, <<"collide_cards", "combat">>,
     <<"collide_cards", "evaluate_tiles">>,
     <<"select_card", "evaluate_stacks">>, <<"select_card", "handle_enemies">>,
     <<"select_card", "combat">>, <<"select_card", "evaluate_tiles">>,
     <<"evaluate_stacks", "handle_enemies">>, <<"evaluate_stacks", "combat">>,
     <<"handle_enemies", "combat">>}

C18_SlottedOutOfStacks ==
    \A c \in DOMAIN cards :
      cards[c].slotted_in_tile # None =>
        cards[c].stack_parent = None /\ cards[c].stack_child = None

\* card.rs 497-504: the mover and the card it is attached to are in no slot
C18_Attach ==
    (pc = "collide_cards" /\ ev'.op = "collide_cards") =>
      \A i \in DOMAIN ev'.attached :
        /\ cards[ev'.attached[i][1]].slotted_in_tile = None
        /\ cards[ev'.attached[i][2]].slotted_in_tile = None

\* card.rs 661-676: the card that a release puts in a slot is in no stack
C18_Release ==
    (pc = "select_card" /\ ev'.op = "select_card") =>
      \A i \in DOMAIN ev'.slot :
        ev'.slot[i].result => ~in_stack(cards'[ev'.slot[i].card])

\* C18: a card in a slot has no stack_parent and no stack_child; no attach
\* takes a card in a slot as its mover or as the card attached to, and no
\* release puts a card of a stack in a slot
C18_SlottedXorStacked == []C18_SlottedOutOfStacks /\ [][C18_Attach /\ C18_Release]_vars

\* C18: a card in a slot has come into contact with a free card, in front of
\* it or behind it, and nothing was attached
C18_ContactWithSlotted ==
    /\ Ran("collide_cards")
    /\ Len(ev.batch) = 1
    /\ ev.attached = <<>>
    /\ selected = None
    /\ LET a == ev.batch[1].e1
           b == ev.batch[1].e2
       IN /\ a \in DOMAIN cards /\ b \in DOMAIN cards
          /\ cards[a].slotted_in_tile # None \/ cards[b].slotted_in_tile # None
          /\ ~in_stack(cards[a]) /\ ~in_stack(cards[b])
          /\ is_player_controlled(cards[a]) /\ is_player_controlled(cards[b])

\* --------------------------------------------------------------------- C19
\* the cards of type Log among the queued spawns
logs(queue) == {i \in DOMAIN queue : queue[i].card_type = "Log"}

\* tile.rs 359-380: one run of evaluate_tiles, for the Woods tiles that hold a
\* card: the timer advances by the frame's time; when that completes it, the
\* tile produces and the timer is back at zero.  One Log is queued for each
\* Woods tile that produces (as far as there are entities left for them).
C19_Tick ==
    (~tiles_done /\ tiles_done') =>
      /\ \A t \in WoodsTiles :
           tiles[t].slotted_villager # None =>
             LET b == tiles[t].progress_bar IN
             /\ b \in DOMAIN bars
             /\ bars[b].total = WoodsTotal
             /\ IF bars[b].current + delta >= WoodsTotal
                THEN t \in ev'.produced /\ bars'[b].current = 0
                ELSE t \notin ev'.produced /\ bars'[b].current = bars[b].current + delta
      /\ Cardinality(logs(deferred')) - Cardinality(logs(deferred))
           <= Cardinality(ev'.produced \cap WoodsTiles)
      /\ Cardinality(FreeCards(cards, roots, queued, selected, tiles, deferred))
           >= Cardinality(ev'.produced) =>
             Cardinality(logs(deferred')) - Cardinality(logs(deferred))
               = Cardinality(ev'.produced \cap WoodsTiles)

\* tile t holds a card, which has not just been picked out of it (a press and
\* a release in one frame can put the card back at once, with a new timer)
StaysSlotted(t) ==
    /\ tiles[t].slotted_villager # None
    /\ ~(Ran("select_card") /\ ev.unslotted = t)

\* tile t has just produced
Produced(t) == Ran("evaluate_tiles") /\ t \in ev.produced

\* C19: in every frame a Woods tile that holds a card advances its timer by
\* the frame's time; when the timer reaches 15 s the tile spawns one Log and
\* the timer restarts from zero; and in a run whose frames never end, a tile
\* whose card is not picked up any more from some frame on produces again and
\* again
C19_LogsWhileSlotted ==
    /\ [][C19_Tick]_vars
    /\ \A t \in WoodsTiles :
         (<>[]StaysSlotted(t) /\ []<>TickEnd) => []<>Produced(t)

\* C19: a Woods tile that holds a Villager produces while a Log it produced
\* earlier lies on the table
C19_SecondLog ==
    \E t \in WoodsTiles :
      /\ Produced(t)
      /\ tiles[t].slotted_villager \in DOMAIN cards
      /\ cards[tiles[t].slotted_villager].card_type = "Villager"
      /\ cards[tiles[t].slotted_villager].slotted_in_tile = t
      /\ \E c \in DOMAIN cards : cards[c].card_type = "Log"

\* --------------------------------------------------------------------- C20
\* tile.rs 97-137: try_slotting_card on the Enemies tile, for every card and
\* whether or not an entity is left for a bar
C20_NoSlot ==
    \A c \in DOMAIN cards :
      /\ cards[c].slotted_in_tile # EnemiesTile
      /\ \A b \in BarIds \cup {None} :
           LET r == try_slotting_card(tiles[EnemiesTile], c, cards[c], b)
           IN ~r.result /\ r.tile = tiles[EnemiesTile]

\* tile.rs 381-399: one run of evaluate_tiles for the Enemies tile: its timer
\* advances by the frame's time; when that completes it, the tile produces
\* and the timer is back at zero
C20_Tick ==
    (~tiles_done /\ tiles_done') =>
      LET b == tiles[EnemiesTile].progress_bar IN
      /\ b \in DOMAIN bars
      /\ bars[b].total = EnemiesTotal
      /\ IF bars[b].current + delta >= EnemiesTotal
         THEN EnemiesTile \in ev'.produced /\ bars'[b].current = 0
         ELSE EnemiesTile \notin ev'.produced /\ bars'[b].current = bars[b].current + delta

\* C20: try_slotting_card on the Enemies tile always returns false; the timer
\* of the Enemies tile advances in every frame and restarts when it completes
\* with a Goblin spawned; and whatever the cards, the stacks, the slots and the
\* fights, the tile produces again and again
C20_GoblinsForever ==
    /\ []C20_NoSlot
    /\ [][C20_Tick]_vars
    /\ []<>Produced(EnemiesTile)

\* C20: the player holds a card over the Enemies tile and the app has stopped
C20_HeldOverEnemiesTile == pc = "panic" /\ ev.line = 339 /\ selected # None


\* ------------------------------------------------------------------- C21
\* the hostile cards without a combat_state, and the Villager-class cards
Hostiles == {c \in DOMAIN cards : class(cards[c].card_type) = "Enemy"}
IdleHostiles == {c \in Hostiles : cards[c].combat_state = NoCombat}
VillagerClass == {c \in DOMAIN cards : class(cards[c].card_type) = "Villager"}

\* the inputs of one targeting pass: an iteration order of the Villager-class
\* cards and a distance from each idle hostile card to each of them
TargetingInputs ==
    {inp \in [order : Orders(VillagerClass),
             dist : [IdleHostiles -> [VillagerClass -> Distances]]] : TRUE}

\* the place of card v in the iteration order
place(order, v) == CHOOSE i \in 1..Len(order) : order[i] = v

\* C21: in every targeting pass, whatever the iteration order and the
\* distances, exactly the hostile cards without a combat_state get a target
\* when a Villager-class card exists; the target is a Villager-class card
\* (never a Resource or an Enemy card), no Villager-class card is nearer, and
\* among the ones at the same distance it is the first found; a card that is
\* already Engaging is not processed; with no Villager-class card no hostile
\* card gets a target, none moves and no card changes.
C21_NearestVillagerTargeted ==
    pc = "handle_enemies" =>
      \A inp \in TargetingInputs :
        LET targets == enemy_targets(cards, inp.order, inp.dist)
            after_pass == handled(cards, targets, inp.dist)
        IN  /\ DOMAIN targets = IF VillagerClass = {} THEN {} ELSE IdleHostiles
            /\ \A e \in DOMAIN targets :
                 /\ targets[e] \in VillagerClass
                 /\ \A v \in VillagerClass :
                      /\ inp.dist[e][targets[e]] <= inp.dist[e][v]
                      /\ inp.dist[e][targets[e]] = inp.dist[e][v]
                           => place(inp.order, targets[e]) <= place(inp.order, v)
            /\ \A c \in DOMAIN cards \ IdleHostiles :
                 after_pass[c] = cards[c]
            /\ VillagerClass = {} =>
                 /\ moved(targets, inp.dist) = {}
                 /\ after_pass = cards

\* C21 witness: a targeting pass with an idle hostile card, an Engaging
\* hostile card or a Resource card beside it, and two Villager-class cards,
\* of which the pass chose one for the idle hostile card
C21_ChoseAmongVillagers ==
    /\ Ran("handle_enemies")
    /\ \E g \in Hostiles, v, w \in VillagerClass :
         /\ v # w
         /\ cards[g].combat_state # NoCombat
         /\ cards[g].combat_state.target = v
         /\ cards[g].combat_state.elapsed = 0
    /\ \E c \in DOMAIN cards : class(cards[c].card_type) = "Resource"

\* C21 witness of the other case: a targeting pass with an idle hostile card
\* and no Villager-class card
C21_NobodyToTarget ==
    /\ Ran("handle_enemies")
    /\ IdleHostiles # {}
    /\ VillagerClass = {}

\* ------------------------------------------------------------------- C22
\* C22: in every targeting pass, whatever the iteration order and the
\* distances, a hostile card with a target at a distance of at most the
\* strike range leaves the pass Engaging, with a fresh 1-second cooldown on
\* that target, and is not moved; a hostile card whose target is farther than
\* the strike range is moved toward it and leaves the pass with no
\* combat_state.
C22_EngagesOnlyWithinRange ==
    pc = "handle_enemies" =>
      \A inp \in TargetingInputs :
        LET targets == enemy_targets(cards, inp.order, inp.dist)
            after_pass == handled(cards, targets, inp.dist)
        IN  \A e \in DOMAIN targets :
              IF inp.dist[e][targets[e]] <= StrikeRange
              THEN /\ after_pass[e].combat_state =
                        [target |-> targets[e], elapsed |-> 0,
                         duration |-> AttackCooldown]
                   /\ e \notin moved(targets, inp.dist)
              ELSE /\ after_pass[e].combat_state = NoCombat
                   /\ e \in moved(targets, inp.dist)

\* C22 witness: a targeting pass that two hostile cards entered without a
\* combat_state; one left it Engaging with a fresh cooldown, the other left
\* it with no combat_state
C22_OneEngagedOneApproaching ==
    /\ Ran("handle_enemies")
    /\ \E g, h \in Hostiles :
         /\ cards[g].combat_state # NoCombat
         /\ cards[g].combat_state.elapsed = 0
         /\ cards[g].combat_state.duration = AttackCooldown
         /\ cards[h].combat_state = NoCombat
         /\ VillagerClass # {}

\* ------------------------------------------------------------------- C23
\* frames of 0.9 s: a hostile card's cooldown of 1 s completes in the frame
\* after the one in which it engaged
SlowDeltas == {9}

\* mod.rs 29-44, tile.rs 25-44: the state after construction, with slow frames
InitSlow ==
    /\ cards = [c \in {1, 2} |-> NewCard("Villager")]
    /\ roots = <<>>
    /\ queued = {}
    /\ selected = None
    /\ hovered_tile = None
    /\ tiles = [t \in TileIds |->
                  IF t = EnemiesTile
                  THEN [variant |-> "Enemies", slotted_villager |-> None, progress_bar |-> 1]
                  ELSE [variant |-> "Woods", slotted_villager |-> None, progress_bar |-> None]]
    /\ bars = (1 :> [current |-> 0, total |-> EnemiesTotal, owner |-> None])
    /\ deferred = <<>>
    /\ delta \in SlowDeltas
    /\ tick = 0
    /\ pc = "collide_cards"
    /\ tiles_done = FALSE
    /\ ev = [op |-> "init"]
    /\ merged = <<>>
    /\ placed = {}

\* Runs of any length with slow frames in which the player leaves the mouse
\* alone and the cards lie apart; the schedule keeps running its systems.
SpecSkirmish == InitSlow /\ [][FightNext]_vars /\ WF_pc(Advance)

\* card c is Engaging and the target of its combat_state has been destroyed
Stale(c) ==
    /\ c \in DOMAIN cards
    /\ cards[c].combat_state # NoCombat
    /\ cards[c].combat_state.target \notin DOMAIN cards

\* a combat pass in which the cooldown of a card with a destroyed target
\* completes leaves the card, if it survives, with no combat_state or with
\* the fresh combat_state that a strike of a live card gave it afterwards
C23_Pass ==
    pc = "combat" /\ pc' = "end" =>
      \A c \in DOMAIN cards :
        (/\ Stale(c)
         /\ just_finished(cards[c].combat_state, delta)
         /\ c \in DOMAIN cards') =>
           \/ cards'[c].combat_state = NoCombat
           \/ /\ cards'[c].combat_state.target \in DOMAIN cards
              /\ cards'[c].combat_state.target # cards[c].combat_state.target
              /\ cards'[c].combat_state.duration = RetaliateCooldown

\* a hostile card without a combat_state is one the targeting pass processes
C23_Eligible ==
    \A c \in Hostiles : cards[c].combat_state = NoCombat => c \in seeking(cards)

\* C23: a card whose combat_state names a destroyed target does not keep it
\* forever: the combat pass in which the card's cooldown next completes clears
\* the combat_state, so the card is eventually no longer Engaging with a
\* destroyed target, and a hostile card with no combat_state is again one the
\* targeting pass processes.
C23_DestroyedTargetDropped ==
    /\ []C23_Eligible
    /\ [][C23_Pass]_vars
    /\ \A c \in CardIds : Stale(c) ~> ~Stale(c)

\* C23 witness: a hostile card whose target another attacker destroyed is
\* still Engaging after a targeting pass, which skipped it
C23_HostileWithDestroyedTarget ==
    /\ Ran("handle_enemies")
    /\ \E c \in Hostiles : Stale(c)

\* ------------------------------------------------------------------- C24
\* the chain headed by r consists of exactly two cards, both Villagers
TwoVillagers(r) ==
    /\ Cardinality(walk_set(cards, r)) = 2
    /\ \A c \in walk_set(cards, r) : cards[c].card_type = "Villager"

\* the state of a recomputation pass before its first queued entity
PassStart ==
    [roots |-> roots, reserved |-> <<>>, despawn |-> {}, dropped |-> {},
     hang |-> FALSE, panic |-> FALSE, line |-> 0, exhausted |-> FALSE]

\* the recomputation ran to its end
recomputed(st) == ~(st.hang \/ st.panic \/ st.exhausted)

\* recomputing entity e once, twice and three times in one pass classifies
\* its root the same way each time: Breed for a chain of exactly two
\* Villagers, Nothing for any other
C24_Repeat ==
    pc = "evaluate_stacks" =>
      \A e \in DOMAIN cards \cup DOMAIN roots \cup queued :
        LET root == find_stack_root(cards, e)
            once == recompute(PassStart, e, cards, bars, tiles)
            twice == recompute(once, e, cards, bars, tiles)
            thrice == recompute(twice, e, cards, bars, tiles)
            kind == IF TwoVillagers(root) THEN "Breed" ELSE "Nothing"
        IN  /\ recomputed(once) => once.roots[root].kind = kind
            /\ recomputed(twice) => twice.roots[root].kind = kind
            /\ recomputed(thrice) => thrice.roots[root].kind = kind

\* a pass that recomputes a queued root whose classification agrees with its
\* chain leaves the classification kind as it was
C24_Requeued ==
    pc = "evaluate_stacks" /\ pc' = "handle_enemies" =>
      \A r \in queued \cap DOMAIN roots :
        (/\ find_stack_root(cards, r) = r
         /\ roots[r].kind \in {"Breed", "Nothing"}
         /\ roots[r].kind = "Breed" <=> TwoVillagers(r)) =>
           roots'[r].kind = roots[r].kind

\* C24: the classification kind is a function of the chain alone: recomputing
\* a root again with the chain as it is gives the same kind, Breed for exactly
\* two Villagers and Nothing otherwise, however often it is recomputed.
C24_RecomputeKeepsKind == []C24_Repeat /\ [][C24_Requeued]_vars

\* C24 witness: a pass has recomputed a root whose Breed had completed before;
\* the two Villagers are classified Breed again, beside the Villager they bred
C24_BreedAgain ==
    /\ Ran("evaluate_stacks")
    /\ \E r \in ev.processed \cap DOMAIN roots :
         /\ roots[r].kind = "Breed"
         /\ TwoVillagers(r)
         /\ Cardinality(VillagerClass) >= 3

\* ------------------------------------------------------------------- C25
\* the cases in which try_slotting_card fails: an Enemies tile, an occupied
\* Woods tile, a card that is not of the Villager class
fails_to_slot(tile, card) ==
    \/ tile.variant = "Enemies"
    \/ tile.slotted_villager # None
    \/ class(card.card_type) # "Villager"

\* a failing call returns false and leaves the tile as it was, whatever the
\* tile, the card and the entity of the bar it would have spawned
C25_Call ==
    pc = "select_card" =>
      \A t \in TileIds, c \in DOMAIN cards, b \in BarIds \cup {None} :
        fails_to_slot(tiles[t], cards[c]) =>
          LET r == try_slotting_card(tiles[t], c, cards[c], b)
          IN  ~r.result /\ r.tile = tiles[t]

\* a release whose try_slotting_card failed, in a frame without a press,
\* changes nothing but the selection; with a press in the same frame it still
\* creates no timer and slots the card nowhere
C25_Release ==
    (/\ pc = "select_card"
     /\ Ran("select_card")'
     /\ ev'.slot # <<>>
     /\ ~ev'.slot[1].result) =>
       /\ DOMAIN bars' \subseteq DOMAIN bars
       /\ cards'[ev'.slot[1].card].slotted_in_tile = None
       /\ tiles'[ev'.slot[1].tile].slotted_villager # ev'.slot[1].card
       /\ selected' = None
       /\ ev'.picked = None =>
            /\ cards' = cards
            /\ tiles' = tiles
            /\ bars' = bars
            /\ roots' = roots
            /\ queued' = queued
            /\ deferred' = deferred

\* C25: a try_slotting_card that fails (Enemies tile, occupied Woods tile,
\* card not of the Villager class) returns false and changes nothing: the
\* tile's slot and timer, the card's slotted_in_tile and all other state stay
\* as they were, and no timer is created.
C25_FailedSlottingChangesNothing == []C25_Call /\ [][C25_Release]_vars

\* C25 witness: a card was released over the slot of a Woods tile that
\* another card occupies, and try_slotting_card returned false
C25_ReleasedOverOccupiedSlot ==
    /\ Ran("select_card")
    /\ ev.slot # <<>>
    /\ ~ev.slot[1].result
    /\ tiles[ev.slot[1].tile].slotted_villager \in DOMAIN cards \ {ev.slot[1].card}

\* C25 witness of another case: the released card is not of the Villager class
C25_ReleasedResource ==
    /\ Ran("select_card")
    /\ ev.slot # <<>>
    /\ ~ev.slot[1].result
    /\ class(cards[ev.slot[1].card].card_type) # "Villager"

\* ------------------------------------------------------------------- C26
\* the state of the attach loop before its first pair
LoopStart ==
    [cards |-> cards, roots |-> roots, queued |-> queued,
     hang |-> FALSE, attached |-> <<>>]

\* the pairs (mover, back card) of live cards
Pairs == {pr \in (DOMAIN cards) \X (DOMAIN cards) : pr[1] # pr[2]}

\* the attach guard fails for mover ex and attachment point top: the mover has
\* a parent, the attachment point has a child, or one of them is of the Enemy
\* class or slotted
guard_fails(cs, ex, top) ==
    \/ cs[ex].stack_parent # None
    \/ cs[top].stack_child # None
    \/ class(cs[ex].card_type) = "Enemy"
    \/ class(cs[top].card_type) = "Enemy"
    \/ cs[ex].slotted_in_tile # None
    \/ cs[top].slotted_in_tile # None

\* an iteration of the attach loop whose guard fails leaves the loop's state
\* as it was and raises nothing
silent(st, pr) ==
    LET top == find_stack_top(st.cards, pr[2])
    IN  (/\ top \in DOMAIN st.cards
         /\ top # pr[1]
         /\ guard_fails(st.cards, pr[1], top)) =>
           attach(st, pr[1], pr[2]) = st

\* as the first iteration of the loop and as the one after any other
C26_Iteration ==
    pc = "collide_cards" =>
      \A pr \in Pairs :
        /\ silent(LoopStart, pr)
        /\ \A before \in Pairs :
             LET st == attach(LoopStart, before[1], before[2])
             IN  ~st.hang => silent(st, pr)

\* a collide_cards in which no pair attached changes no card, no registry
\* entry and no queue entry, and goes on to the next system
C26_Frame ==
    (pc = "collide_cards" /\ pc' # "collide_cards"
       /\ Ran("collide_cards")' /\ ev'.attached = <<>>) =>
         /\ cards' = cards
         /\ roots' = roots
         /\ queued' = queued
         /\ pc' = "select_card"

\* C26: a collision whose attach guard fails (the mover has a parent, the
\* attachment point has a child, either card is of the Enemy class or slotted)
\* changes no card link, no StackRoot registry entry and no queue entry, and
\* raises no error.
C26_FailedGuardIsNoOp == []C26_Iteration /\ [][C26_Frame]_vars

\* C26 witness: collide_cards has processed a contact between two cards that
\* are not held, one of them of the Enemy class or slotted, and attached
\* nothing
C26_ContactRefused ==
    /\ Ran("collide_cards")
    /\ ev.attached = <<>>
    /\ \E i \in DOMAIN ev.batch :
         LET e == ev.batch[i]
         IN  /\ {e.e1, e.e2} \subseteq DOMAIN cards
             /\ selected \notin {e.e1, e.e2}
             /\ \E c \in {e.e1, e.e2} :
                  \/ class(cards[c].card_type) = "Enemy"
                  \/ cards[c].slotted_in_tile # None

\* ------------------------------------------------------------------- C27
\* the contacts of the held card
HeldEvents == {e \in Events(cards) : selected \in {e.e1, e.e2}}

\* a contact of the held card contributes no pair, alone and beside any other
\* contact, so the attach loop does for it nothing at all
C27_Event ==
    (pc = "collide_cards" /\ selected # None) =>
      \A e \in HeldEvents :
        /\ front_pair(cards, selected, e) = <<>>
        /\ attach_all(LoopStart, stack_x_on_y(cards, selected, <<e>>)) = LoopStart
        /\ \A other \in Events(cards) :
             stack_x_on_y(cards, selected, <<e, other>>)
               = stack_x_on_y(cards, selected, <<other>>)

\* the held card has no stack_parent
C27_HeldIsRoot ==
    (selected # None /\ selected \in DOMAIN cards /\ pc \notin {"panic", "hang", "exhausted"})
      => cards[selected].stack_parent = None

\* collide_cards leaves the links of the held card as they are; when every
\* contact of the frame is one of the held card, it changes no card, no
\* registry entry and no queue entry
C27_Frame ==
    (pc = "collide_cards" /\ Ran("collide_cards")'
       /\ selected # None /\ selected \in DOMAIN cards) =>
         /\ cards'[selected].stack_parent = cards[selected].stack_parent
         /\ cards'[selected].stack_child = cards[selected].stack_child
         /\ (\A i \in DOMAIN ev'.batch : selected \in {ev'.batch[i].e1, ev'.batch[i].e2})
              => /\ cards' = cards
                 /\ roots' = roots
                 /\ queued' = queued

\* C27: a collision event in which either card is the held card is ignored:
\* it changes no card link, no registry entry and no queue entry, so a card
\* never gains a stack_parent or a stack_child through an attach while held.
C27_HeldCardContactsIgnored ==
    []C27_Event /\ []C27_HeldIsRoot /\ [][C27_Frame]_vars

\* C27 witness: collide_cards has processed a contact between the held card
\* and a lone card that it could otherwise stack with, and attached nothing
C27_HeldCardTouched ==
    /\ Ran("collide_cards")
    /\ selected \in DOMAIN cards
    /\ ev.attached = <<>>
    /\ \E i \in DOMAIN ev.batch :
         LET e == ev.batch[i]
         IN  /\ selected \in {e.e1, e.e2}
             /\ \A c \in {e.e1, e.e2} :
                  /\ c \in DOMAIN cards
                  /\ is_stackable(cards[c])
                  /\ ~in_stack(cards[c])

\* ------------------------------------------------------------------- C28
\* the contacts a frame may see start when several cards come to lie on one
\* another at once
PileEvents == 3

\* the events of such a frame, read in the order of their entities
Piles(cs, plc) ==
    {batch \in UNION {[1..n -> {e \in Events(cs) : e.e1 < e.e2}] : n \in 0..PileEvents} :
        /\ \A i, j \in DOMAIN batch :
             i < j => \/ batch[i].e1 < batch[j].e1
                      \/ batch[i].e1 = batch[j].e1 /\ batch[i].e2 < batch[j].e2
        /\ z_consistent(batch, plc)}

CollideCardsPile == Collide(Piles(cards, placed))

\* The runs of Spec with up to PileEvents contacts in a frame and no enemy
\* within reach of a card.
PileNext ==
    \/ CollideCardsPile
    \/ SelectCard
    \/ HoverTile
    \/ MoveCards
    \/ EvaluateTiles
    \/ EvaluateStacks
    \/ HandleEnemiesFar
    \/ Combat
    \/ EndOfUpdate

SpecPile == Init /\ [][PileNext]_vars

\* the cards met from c along stack_child links, c itself left out
RECURSIVE descendants(_, _, _)
descendants(cs, c, fuel) ==
    IF fuel = 0 \/ c \notin DOMAIN cs \/ cs[c].stack_child = None THEN {}
    ELSE {cs[c].stack_child} \cup descendants(cs, cs[c].stack_child, fuel - 1)

\* the cards met from c along stack_parent links, c itself left out
RECURSIVE ancestors(_, _, _)
ancestors(cs, c, fuel) ==
    IF fuel = 0 \/ c \notin DOMAIN cs \/ cs[c].stack_parent = None THEN {}
    ELSE {cs[c].stack_parent} \cup ancestors(cs, cs[c].stack_parent, fuel - 1)

\* C28: no card is reachable from itself along stack_child or stack_parent
\* links, and no walk along the links runs without end.
C28_StackLinksAcyclic ==
    /\ pc # "hang"
    /\ \A c \in DOMAIN cards :
         /\ c \notin descendants(cards, c, MaxCards)
         /\ c \notin ancestors(cards, c, MaxCards)

\* C28 witness: collide_cards attached three pairs in one frame
C28_ThreeAttachedAtOnce ==
    /\ Ran("collide_cards")
    /\ Len(ev.attached) = 3

\* ------------------------------------------------------------------- C29
\* the registry entries that a pass superseded or removed
superseded(before, now) ==
    {r \in DOMAIN before : r \notin DOMAIN now \/ now[r] # before[r]}

\* at the end of a recomputation pass the timer of every Breed entry that the
\* pass superseded or removed has been destroyed
C29_Cancelled ==
    (pc = "evaluate_stacks" /\ Ran("evaluate_stacks")') =>
      \A r \in superseded(roots, roots') :
        roots[r].kind = "Breed" => roots[r].progress_bar \notin DOMAIN bars'

\* at the end of a recomputation pass the timer of every Breed entry is live
C29_Live ==
    Ran("evaluate_stacks") =>
      \A r \in DOMAIN roots :
        roots[r].kind = "Breed" => roots[r].progress_bar \in DOMAIN bars

\* C29: at the end of every recomputation pass the timers of the
\* classifications that the pass superseded or removed have been destroyed,
\* and the timer that each current Breed entry names is live, also when
\* several queued identities of the pass resolve to one root.
C29_BreedTimersKept == []C29_Live /\ [][C29_Cancelled]_vars

\* C29 witness: a pass has processed two queued identities that resolve to
\* one root, which it left classified Breed with a live timer
C29_TwoIdentitiesOneRoot ==
    /\ Ran("evaluate_stacks")
    /\ \E x, y \in ev.processed :
         /\ x # y
         /\ find_stack_root(cards, x) = find_stack_root(cards, y)
         /\ find_stack_root(cards, x) \in DOMAIN roots
         /\ roots[find_stack_root(cards, x)].kind = "Breed"
         /\ roots[find_stack_root(cards, x)].progress_bar \in DOMAIN bars

\* ------------------------------------------------------------------- C30
\* the last live card of the chain of live card c
RECURSIVE last_live(_, _, _)
last_live(cs, c, fuel) ==
    IF fuel = 0 \/ cs[c].stack_child \notin DOMAIN cs THEN c
    ELSE last_live(cs, cs[c].stack_child, fuel - 1)

\* the stack_child link of card c names a destroyed card
stale_child(cs, c) == cs[c].stack_child # None /\ cs[c].stack_child \notin DOMAIN cs

\* C30: started from a live card, find_stack_top returns the last live card
\* of the chain, a destroyed stack_child being the end of the chain; a lone
\* stackable card that collides in front of a card of a chain whose tail was
\* destroyed is attached onto the last surviving card.
C30_WalkEndsAtLastLiveCard ==
    pc = "collide_cards" =>
      \A c \in DOMAIN cards :
        /\ find_stack_top(cards, c) = last_live(cards, c, MaxCards)
        /\ \A ex \in DOMAIN cards \ {c} :
             LET tail == last_live(cards, c, MaxCards)
                 st == attach(LoopStart, ex, c)
             IN  (/\ stale_child(cards, tail)
                  /\ is_stackable(cards[tail])
                  /\ is_stackable(cards[ex])
                  /\ ~in_stack(cards[ex])) =>
                    /\ st.cards[ex].stack_parent = tail
                    /\ st.cards[tail].stack_child = ex

\* C30 witness: a frame begins with a chain whose tail card was destroyed
C30_TailDestroyed ==
    /\ pc = "collide_cards"
    /\ \E c \in DOMAIN cards :
         /\ stale_child(cards, c)
         /\ cards[c].stack_parent = None
         /\ find_stack_top(cards, c) = cards[c].stack_child

\* ------------------------------------------------------------------- C31
\* card.rs 924-927: the pass takes the branch that destroys its target
kills(s) == applies(s) /\ dies(after(s).cards[target_of(s)].health)

\* the health of every card of the loop
healths(st) == [c \in DOMAIN st.cards |-> st.cards[c].health]

\* C31: a card that a damage application of this pass has reduced to health 0
\* deals no damage when its own cooldown completes later in the pass: it
\* lowers no card's health and destroys no card; and a card already at
\* health 0 is not destroyed again by another attacker of the pass.
C31_DeadCardsDealNoDamage ==
    \A s \in Strikes :
      /\ (fires(s) /\ s.entity \in s.before.killed) =>
           /\ healths(after(s)) = healths(s.before)
           /\ after(s).killed = s.before.killed
      /\ (applies(s) /\ target_of(s) \in s.before.killed) => ~kills(s)

\* C31 witness: the loop of combat comes to a card that it has killed in this
\* pass, whose cooldown completes and whose target is there
C31_KilledCardHasItsTurn ==
    \E s \in Strikes : s.entity \in s.before.killed /\ applies(s)

\* C31 witness of the other case: the loop comes to an attacker whose target
\* another attacker has killed in this pass
C31_TargetAlreadyKilled ==
    \E s \in Strikes : applies(s) /\ target_of(s) \in s.before.killed


\* ------------------------------------------------------------------- C32
\* card.rs 789-803: the chain of root r is r and one card on it, both live
\* Villager cards
live_pair(cs, r) ==
    /\ r \in DOMAIN cs
    /\ cs[r].card_type = "Villager"
    /\ cs[r].stack_child \in DOMAIN cs
    /\ cs[cs[r].stack_child].card_type = "Villager"
    /\ cs[cs[r].stack_child].stack_child = None

\* card.rs 757-777: the roots whose timer completed in the pass that just ran
\* and for which a Villager was spawned
bred_from(cs) == {r \in DOMAIN cs : Bred(r)}

C32_Pass ==
    (pc = "evaluate_stacks" /\ Ran("evaluate_stacks")')
        => \A r \in bred_from(cards)' : live_pair(cards, r)

\* C32: a Villager is spawned for a Breed root only in a pass at whose start
\* the root's chain is exactly two live Villager cards.
C32_BreedsOnlyFromLivePair == [][C32_Pass]_vars

\* C32 witness: the pass has spawned a Villager for a root whose chain is two
\* live Villager cards
C32_PairBred ==
    /\ pc = "handle_enemies"
    /\ \E r \in bred_from(cards) : live_pair(cards, r)

\* C32 witness of the other case: the timer of a root runs while the card on
\* it has been destroyed
C32_TimerOfBrokenPair ==
    /\ pc = "evaluate_stacks"
    /\ \E r \in breeding(roots, bars) : r \in DOMAIN cards /\ ~live_pair(cards, r)


\* ------------------------------------------------------------------- C33
\* tile.rs 359-362: the card in the slot of tile t is a live Villager card
\* that names t as its slot
holds_live_villager(tls, cs, t) ==
    /\ tls[t].slotted_villager \in DOMAIN cs
    /\ cs[tls[t].slotted_villager].card_type = "Villager"
    /\ cs[tls[t].slotted_villager].slotted_in_tile = t

C33_Run ==
    (~tiles_done /\ tiles_done') =>
      \A t \in ev'.produced \cap WoodsTiles : holds_live_villager(tiles, cards, t)

\* C33: a Woods tile produces a Log only in a run of evaluate_tiles at which
\* a live Villager card is in its slot; once that card has been picked up or
\* destroyed the tile produces nothing until a card is slotted again.
C33_LogsOnlyFromLiveVillager == [][C33_Run]_vars

\* C33 witness: a Woods tile has produced with a live Villager in its slot
C33_ProducedWhileSlotted ==
    \E t \in WoodsTiles : Produced(t) /\ holds_live_villager(tiles, cards, t)

\* C33 witness of the other case: the timer of a Woods tile exists while the
\* card of its slot has been destroyed
C33_TimerOfDestroyedCard ==
    \E t \in WoodsTiles :
      /\ ticking_bar(tiles[t], bars) # None
      /\ tiles[t].slotted_villager # None
      /\ tiles[t].slotted_villager \notin DOMAIN cards


\* ------------------------------------------------------------------- C34
\* select_card in a frame in which the player presses the button, or has it
\* down already: a card once picked up stays held
SelectCardHold == Select({"none"} \cup (MouseInputs \cap {"press"}))

\* handle_enemies in a frame in which every hostile card is within the strike
\* range of every Villager-class card
HandleEnemiesNear == Handle({d \in Distances : ~out_of_range(d)})

DragNext ==
    \/ CollideCardsApart
    \/ SelectCardHold
    \/ HoverTile
    \/ MoveCards
    \/ EvaluateTiles
    \/ EvaluateStacks
    \/ HandleEnemiesNear
    \/ Combat
    \/ NextFrame

\* Runs of any length with slow frames in which the cards do not touch, the
\* hostile cards are within reach of the Villagers, and the player may pick up
\* a card and hold it.
SpecDrag == InitSlow /\ [][DragNext]_vars

\* card.rs 413-419: the card the player holds is put at the cursor in
\* move_cards, so its distance to any other card is whatever the player makes
\* it in this frame
dragged(a, b) == is_selected(selected, a) \/ is_selected(selected, b)

\* card.rs 838-892, 894-933: the cards at the end of the tick, for every
\* outcome of handle_enemies on the cards cs and every iteration order of
\* combat after it
tick_ends(cs) ==
    UNION {{strike_all([cards |-> handled(cs, enemy_targets(cs, inp.order, inp.dist),
                                          inp.dist),
                        killed |-> {}], order, delta) :
              order \in Orders(fighters(handled(cs, enemy_targets(cs, inp.order, inp.dist),
                                                inp.dist)) \cap DOMAIN cs)} :
           inp \in TargetingInputs}

\* card c, not destroyed in the tick, holds a combat_state with the live target t
holds_target(st, c, t) ==
    /\ c \in (DOMAIN st.cards) \ st.killed
    /\ t \in (DOMAIN st.cards) \ st.killed
    /\ st.cards[c].combat_state # NoCombat
    /\ st.cards[c].combat_state.target = t

\* C34: a card holds a combat_state at the end of a tick only if it is within
\* the strike range of its target: a card that comes to handle_enemies with a
\* combat_state, and whose distance to its target in this frame is beyond the
\* strike range because the player has dragged one of the two away, does not
\* hold that combat_state at the end of the tick.
C34_EngagedOnlyWithinRange ==
    pc = "handle_enemies" =>
      \A c \in DOMAIN cards :
        (cards[c].combat_state # NoCombat /\ dragged(c, cards[c].combat_state.target)) =>
          \A d \in Distances :
            out_of_range(d) =>
              \A st \in tick_ends(cards) : ~holds_target(st, c, cards[c].combat_state.target)

\* C34 witness: the tick has ended with a card that holds a combat_state on a
\* live target which the player holds
C34_TargetHeldAtTickEnd ==
    /\ TickEnd
    /\ \E c \in DOMAIN cards :
         /\ cards[c].combat_state # NoCombat
         /\ cards[c].combat_state.target \in DOMAIN cards
         /\ is_selected(selected, cards[c].combat_state.target)


\* ------------------------------------------------------------------- C35
HoldNext ==
    \/ CollideCards
    \/ SelectCardHold
    \/ HoverTile
    \/ MoveCards
    \/ EvaluateTiles
    \/ EvaluateStacks
    \/ HandleEnemiesFar
    \/ Combat
    \/ NextFrame

\* Runs of any length in which cards collide and stack, the player may pick
\* up a card and hold it, and no hostile card comes within reach; the schedule
\* keeps running its systems.
SpecHold == Init /\ [][HoldNext]_vars /\ WF_pc(Advance)

\* card.rs 510-516, 646-649, 778-781: the keys of the entries of type Pending
pending(rts) == {r \in DOMAIN rts : rts[r].kind = "Pending"}

C35_Queued == TickEnd => pending(roots) \subseteq queued

\* a recomputation pass that runs to its end takes every Pending entry from
\* the queue and leaves it Nothing, Breed or removed
C35_Pass ==
    (pc = "evaluate_stacks" /\ Ran("evaluate_stacks")') =>
      \A r \in pending(roots) :
        /\ r \in ev'.processed
        /\ r \in DOMAIN roots' => roots'[r].kind \in {"Nothing", "Breed"}

\* C35: at the end of every tick the key of every Pending entry is in the
\* recomputation queue; the next recomputation pass replaces every Pending
\* entry by Nothing or Breed, or removes it; and in a run whose frames never
\* end no entry stays Pending for good.
C35_PendingIsQueuedAndResolved ==
    /\ []C35_Queued
    /\ [][C35_Pass]_vars
    /\ \A r \in CardIds :
         []<>TickEnd => ((r \in pending(roots)) ~> (r \notin pending(roots)))

\* C35 witness: a tick has ended with a Pending entry, left by a Breed timer
\* that completed
C35_PendingAtTickEnd == TickEnd /\ pending(roots) # {}

\* C35 witness: select_card has given a Pending entry, and a place in the
\* queue, to a card picked out of the middle of a stack
C35_PickedFromTheMiddle ==
    /\ Ran("select_card")
    /\ ev.parent # None
    /\ ev.picked \in pending(roots) \cap queued
    /\ cards[ev.picked].stack_child # None

=============================================================================
